---------------------------- MODULE Spec2Model ----------------------------
(***************************************************************************)
(* Model of scripts/generate_api_docs.py: the OpenAPI synthesis pipeline   *)
(* of APIDocumentationGenerator (route extraction, specification builder,  *)
(* enricher) and the orchestration of generate_documentation and main.     *)
(*                                                                         *)
(* Python str values are modelled as sequences of one-character strings,   *)
(* so that split, strip, lower, startswith and the two regular expressions *)
(* of the route extractor are computed character by character.  Python     *)
(* dicts are functions; a key is present iff it is in the DOMAIN.          *)
(***************************************************************************)
EXTENDS Integers, Sequences, FiniteSets, TLC

(***************************************************************************)
(* Python str primitives                                                   *)
(***************************************************************************)
LowerChars == <<"a","b","c","d","e","f","g","h","i","j","k","l","m",
                "n","o","p","q","r","s","t","u","v","w","x","y","z">>
UpperChars == <<"A","B","C","D","E","F","G","H","I","J","K","L","M",
                "N","O","P","Q","R","S","T","U","V","W","X","Y","Z">>
DigitChars == <<"0","1","2","3","4","5","6","7","8","9">>

Range(f) == {f[i] : i \in DOMAIN f}

IndexIn(seq, c) == CHOOSE i \in 1..Len(seq) : seq[i] = c

\* str.lower() on one character
LowerChar(c) == IF c \in Range(UpperChars) THEN LowerChars[IndexIn(UpperChars, c)] ELSE c

\* str.lower()
Lower(s) == [i \in 1..Len(s) |-> LowerChar(s[i])]

\* str.upper() on one character
UpperChar(c) == IF c \in Range(LowerChars) THEN UpperChars[IndexIn(LowerChars, c)] ELSE c

\* the characters str.strip() removes and the regular expression class \s matches
Whitespace == {" ", "\t", "\n", "\r", "\f"}

\* the regular expression class \w
WordChars == Range(LowerChars) \cup Range(UpperChars) \cup Range(DigitChars) \cup {"_"}

SetMin(S) == CHOOSE x \in S : \A y \in S : x <= y
SetMax(S) == CHOOSE x \in S : \A y \in S : x >= y

\* s[a:b] of Python, on 1-based inclusive positions; out-of-range bounds are clamped
Slice(s, a, b) ==
    LET lo == IF a < 1 THEN 1 ELSE a
        hi == IF b > Len(s) THEN Len(s) ELSE b
    IN  IF lo > hi THEN << >> ELSE SubSeq(s, lo, hi)

\* str.strip(chars): drop leading and trailing characters that are in cs
StripChars(s, cs) ==
    LET keep == {i \in 1..Len(s) : s[i] \notin cs}
    IN  IF keep = {} THEN << >> ELSE SubSeq(s, SetMin(keep), SetMax(keep))

\* str.strip()
Strip(s) == StripChars(s, Whitespace)

\* str.startswith / str.endswith
StartsWith(s, pre) == Len(s) >= Len(pre) /\ Slice(s, 1, Len(pre)) = pre
EndsWith(s, suf) == Len(s) >= Len(suf) /\ Slice(s, Len(s) - Len(suf) + 1, Len(s)) = suf

\* the positions of S in increasing order
SortedPositions(S) ==
    [k \in 1..Cardinality(S) |-> CHOOSE i \in S : Cardinality({j \in S : j < i}) = k - 1]

\* str.split(c) for a one-character separator: always at least one piece
SplitChar(s, c) ==
    LET P      == {i \in 1..Len(s) : s[i] = c}
        cuts   == <<0>> \o SortedPositions(P) \o <<Len(s) + 1>>
    IN  [k \in 1..(Cardinality(P) + 1) |-> Slice(s, cuts[k] + 1, cuts[k + 1] - 1)]

\* sep.join(parts)
RECURSIVE Join(_, _)
Join(parts, sep) ==
    IF Len(parts) = 0 THEN << >>
    ELSE IF Len(parts) = 1 THEN parts[1]
    ELSE parts[1] \o sep \o Join(Tail(parts), sep)

\* Python None and a present value
None == [isNone |-> TRUE, v |-> << >>]
Some(x) == [isNone |-> FALSE, v |-> x]

(***************************************************************************)
(* String literals of the source                                           *)
(***************************************************************************)
Lit == [
    route_open    |-> <<"@","a","p","p",".","r","o","u","t","e","(">>,
    methods_open  |-> <<"m","e","t","h","o","d","s","=","[">>,
    def           |-> <<"d","e","f">>,
    default_get   |-> <<"'","G","E","T","'">>,
    dquote3       |-> <<"\"","\"","\"">>,
    squote3       |-> <<"'","'","'">>,
    newline       |-> <<"\n">>,
    post          |-> <<"p","o","s","t">>,
    put           |-> <<"p","u","t">>,
    patch         |-> <<"p","a","t","c","h">>,
    get           |-> <<"g","e","t">>,
    api           |-> <<"a","p","i">>,
    code200       |-> <<"2","0","0">>,
    json          |-> <<"a","p","p","l","i","c","a","t","i","o","n","/","j","s","o","n">>,
    health_path   |-> <<"/","h","e","a","l","t","h">>,
    status        |-> <<"s","t","a","t","u","s">>,
    timestamp     |-> <<"t","i","m","e","s","t","a","m","p">>,
    healthy       |-> <<"h","e","a","l","t","h","y">>,
    underscore    |-> <<"_">>,
    space         |-> <<" ">>,
    id            |-> <<"i","d">>,
    id_suffix     |-> <<"_","i","d">>,
    item          |-> <<"i","t","e","m">>,
    value         |-> <<"v","a","l","u","e">>,
    password      |-> <<"p","a","s","s","w","o","r","d">>,
    email         |-> <<"e","m","a","i","l">>,
    name          |-> <<"n","a","m","e">>,
    title         |-> <<"t","i","t","l","e">>,
    description   |-> <<"d","e","s","c","r","i","p","t","i","o","n">>,
    age           |-> <<"a","g","e">>,
    count         |-> <<"c","o","u","n","t">>,
    port          |-> <<"p","o","r","t">>,
    price         |-> <<"p","r","i","c","e">>,
    percentage    |-> <<"p","e","r","c","e","n","t","a","g","e">>,
    ex_email      |-> <<"u","s","e","r","@","e","x","a","m","p","l","e",".","c","o","m">>,
    ex_date       |-> <<"2","0","2","3","-","1","2","-","0","1">>,
    ex_datetime   |-> <<"2","0","2","3","-","1","2","-","0","1","T","1","0",":","0","0",":","0","0","Z">>,
    ex_uri        |-> <<"h","t","t","p","s",":","/","/","e","x","a","m","p","l","e",".","c","o","m">>,
    ex_password   |-> <<"S","e","c","u","r","e","P","a","s","s","w","o","r","d","1","2","3","!">>,
    ex_name       |-> <<"J","o","h","n"," ","D","o","e">>,
    ex_title      |-> <<"E","x","a","m","p","l","e"," ","T","i","t","l","e">>,
    ex_description|-> <<"T","h","i","s"," ","i","s"," ","a","n"," ","e","x","a","m","p","l","e"," ","d","e","s","c","r","i","p","t","i","o","n">>,
    ex_id         |-> <<"a","b","c","1","2","3">>,
    ex_prefix     |-> <<"e","x","a","m","p","l","e","_">>,
    err_error     |-> <<"e","r","r","o","r">>,
    err_message   |-> <<"m","e","s","s","a","g","e">>,
    err_details   |-> <<"d","e","t","a","i","l","s">>,
    bad_request   |-> <<"B","a","d"," ","R","e","q","u","e","s","t">>,
    invalid_input |-> <<"I","n","v","a","l","i","d"," ","i","n","p","u","t"," ","p","r","o","v","i","d","e","d">>,
    validation_failed|-> <<"F","i","e","l","d"," ","v","a","l","i","d","a","t","i","o","n"," ","f","a","i","l","e","d">>,
    server_error  |-> <<"I","n","t","e","r","n","a","l"," ","S","e","r","v","e","r"," ","E","r","r","o","r">>,
    unexpected    |-> <<"A","n"," ","u","n","e","x","p","e","c","t","e","d"," ","e","r","r","o","r"," ","o","c","c","u","r","r","e","d">>,
    health_summary|-> <<"H","e","a","l","t","h"," ","c","h","e","c","k"," ","e","n","d","p","o","i","n","t">>,
    health_description|-> <<"C","h","e","c","k"," ","i","f"," ","t","h","e"," ","A","P","I"," ","i","s"," ","r","u","n","n","i","n","g">>,
    operations    |-> <<" ","o","p","e","r","a","t","i","o","n","s">>
]

(***************************************************************************)
(* Route Extractor, pattern-based strategy                                 *)
(***************************************************************************)
Quotes == {"'", "\""}

\* first position >= from whose character satisfies "in cs" (0 when none)
FirstIn(s, from, cs) ==
    LET hits == {i \in from..Len(s) : s[i] \in cs}
    IN  IF hits = {} THEN 0 ELSE SetMin(hits)

\* first position >= from whose character is not in cs (Len(s)+1 when none)
FirstNotIn(s, from, cs) ==
    LET hits == {i \in from..Len(s) : s[i] \notin cs}
    IN  IF hits = {} THEN Len(s) + 1 ELSE SetMin(hits)

NoMatch == [ok |-> FALSE, path |-> << >>, methods |-> None]

\* route_pattern anchored at position p of s:
\*   @app\.route\(['"]([^'"]+)['"](?:,\s*methods=\[([^\]]+)\])?\)
RouteMatchAt(s, p) ==
    LET q  == p + Len(Lit.route_open)             \* the opening quote
        r  == FirstIn(s, q + 1, Quotes)           \* the closing quote
        m  == FirstNotIn(s, r + 2, Whitespace)    \* after ",\s*"
        c  == m + Len(Lit.methods_open)           \* first character of group 2
        e  == FirstIn(s, c, {"]"})                \* the closing bracket
        withGroup ==
            /\ r + 1 <= Len(s) /\ s[r + 1] = ","
            /\ Slice(s, m, c - 1) = Lit.methods_open
            /\ e > c
            /\ e + 1 <= Len(s) /\ s[e + 1] = ")"
    IN  IF /\ Slice(s, p, q - 1) = Lit.route_open
           /\ q <= Len(s) /\ s[q] \in Quotes
           /\ r > q + 1
        THEN IF withGroup
             THEN [ok |-> TRUE, path |-> SubSeq(s, q + 1, r - 1),
                   methods |-> Some(SubSeq(s, c, e - 1))]
             ELSE IF r + 1 <= Len(s) /\ s[r + 1] = ")"
             THEN [ok |-> TRUE, path |-> SubSeq(s, q + 1, r - 1), methods |-> None]
             ELSE NoMatch
        ELSE NoMatch

\* re.search(route_pattern, line): the leftmost match
RouteSearch(s) ==
    LET hits == {p \in 1..Len(s) : RouteMatchAt(s, p).ok}
    IN  IF hits = {} THEN NoMatch ELSE RouteMatchAt(s, SetMin(hits))

NoFunc == [ok |-> FALSE, name |-> << >>]

\* func_pattern anchored at position p of s:  def\s+(\w+)\([^)]*\):
FuncMatchAt(s, p) ==
    LET w == FirstNotIn(s, p + 3, Whitespace)     \* first character of the name
        x == FirstNotIn(s, w, WordChars)          \* the opening parenthesis
        y == FirstIn(s, x + 1, {")"})             \* the closing parenthesis
    IN  IF /\ Slice(s, p, p + 2) = Lit.def
           /\ w > p + 3
           /\ x > w
           /\ x <= Len(s) /\ s[x] = "("
           /\ y > 0
           /\ y + 1 <= Len(s) /\ s[y + 1] = ":"
        THEN [ok |-> TRUE, name |-> SubSeq(s, w, x - 1)]
        ELSE NoFunc

\* re.search(func_pattern, line): the leftmost match
FuncSearch(s) ==
    LET hits == {p \in 1..Len(s) : FuncMatchAt(s, p).ok}
    IN  IF hits = {} THEN NoFunc ELSE FuncMatchAt(s, SetMin(hits))

\* _extract_docstring(lines, start_line); positions are 1-based here
_extract_docstring(lines, start) ==
    LET n        == Len(lines)
        nonblank == {i \in start..n : Strip(lines[i]) # << >>}
    IN  IF start > n \/ nonblank = {} THEN None
        ELSE
          LET i    == SetMin(nonblank)
              line == Strip(lines[i])
          IN  IF StartsWith(line, Lit.dquote3) \/ StartsWith(line, Lit.squote3)
              THEN
                LET quote  == SubSeq(line, 1, 3)
                    closes == {k \in (i + 1)..n : EndsWith(Strip(lines[k]), quote)}
                    last   == IF closes = {} THEN n ELSE SetMin(closes) - 1
                    middle == [k \in 1..(last - i) |-> Strip(lines[i + k])]
                    final  == IF closes = {} THEN << >>
                              ELSE LET cl == Strip(lines[SetMin(closes)])
                                   IN  << Slice(cl, 1, Len(cl) - 3) >>
                IN  IF EndsWith(line, quote) /\ Len(line) > 6
                    THEN Some(Strip(Slice(line, 4, Len(line) - 3)))
                    ELSE Some(Strip(Join(<< Slice(line, 4, Len(line)) >> \o middle \o final,
                                         Lit.newline)))
              ELSE None

\* methods = [m.strip('\'"') for m in methods_str.split(',')]
ParseMethods(methods_str) ==
    LET parts == SplitChar(methods_str, ",")
    IN  [k \in 1..Len(parts) |-> StripChars(parts[k], Quotes)]

\* the body of the while loop of _extract_flask_routes for line i:
\* the Route records appended for that line (none or one)
RoutesOfLine(lines, i) ==
    LET rm   == RouteSearch(Strip(lines[i]))
        defs == {j \in (i + 1)..Len(lines) : StartsWith(Strip(lines[j]), Lit.def)}
    IN  IF ~rm.ok \/ defs = {} THEN << >>
        ELSE
          LET j  == SetMin(defs)
              fm == FuncSearch(lines[j])
          IN  IF ~fm.ok THEN << >>
              ELSE << [path      |-> rm.path,
                       methods   |-> ParseMethods(IF rm.methods.isNone
                                                  THEN Lit.default_get
                                                  ELSE rm.methods.v),
                       function  |-> fm.name,
                       docstring |-> _extract_docstring(lines, j + 1)] >>

RECURSIVE RoutesFrom(_, _)
RoutesFrom(lines, i) ==
    IF i > Len(lines) THEN << >>
    ELSE RoutesOfLine(lines, i) \o RoutesFrom(lines, i + 1)

\* _extract_flask_routes(content)
_extract_flask_routes(content) == RoutesFrom(SplitChar(content, "\n"), 1)

(***************************************************************************)
(* Python dict primitives                                                  *)
(***************************************************************************)
EmptyDict == << >>

\* d.get(k, dflt)
DictGet(d, k, dflt) == IF k \in DOMAIN d THEN d[k] ELSE dflt

\* d[k] = v
DictPut(d, k, v) == (k :> v) @@ d

\* sub in s
Contains(s, sub) ==
    \E i \in 1..(Len(s) - Len(sub) + 1) : Slice(s, i, i + Len(sub) - 1) = sub

(***************************************************************************)
(* JSON values carried by examples: each is tagged with its Python type    *)
(***************************************************************************)
\* (the payload field is named after the type, so that two values of different types
\* are told apart by their fields alone)
PyStr(s)    == [t |-> "str",   s  |-> s]
PyInt(n)    == [t |-> "int",   n  |-> n]
PyFloat(h)  == [t |-> "float", h  |-> h]    \* h is the value in hundredths
PyBool(b)   == [t |-> "bool",  b  |-> b]
PyList(xs)  == [t |-> "list",  xs |-> xs]
PyDict(d)   == [t |-> "dict",  d  |-> d]
PyNone      == [t |-> "none"]

(***************************************************************************)
(* Specification Builder                                                   *)
(***************************************************************************)
ObjectSchema == [type |-> "object"]

JsonContent(schema) == (Lit.json :> [schema |-> schema])

\* _get_base_spec()
_get_base_spec ==
    [openapi    |-> "3.0.0",
     info       |-> [title       |-> "API Documentation",
                     version     |-> "1.0.0",
                     description |-> "Comprehensive API documentation generated automatically"],
     paths      |-> EmptyDict,
     components |-> [schemas |-> EmptyDict, securitySchemes |-> EmptyDict]]

\* mutant: the status property carries no explicit example
GenericSpecWithoutExample ==
    [_get_base_spec EXCEPT !.paths =
        DictPut(@, Lit.health_path,
            (Lit.get :>
                [summary     |-> Lit.health_summary,
                 description |-> Lit.health_description,
                 responses   |->
                    (Lit.code200 :>
                        [description |-> "API is healthy",
                         content |-> JsonContent(
                            [type |-> "object",
                             properties |->
                                (Lit.status :> [type |-> "string"])
                                @@ (Lit.timestamp :> [type |-> "string", format |-> "date-time"])])])]))]

\* _generate_generic_spec()
_generate_generic_spec ==
    [_get_base_spec EXCEPT !.paths =
        DictPut(@, Lit.health_path,
            (Lit.get :>
                [summary     |-> Lit.health_summary,
                 description |-> Lit.health_description,
                 responses   |->
                    (Lit.code200 :>
                        [description |-> "API is healthy",
                         content |-> JsonContent(
                            [type |-> "object",
                             properties |->
                                (Lit.status :> [type |-> "string", example |-> PyStr(Lit.healthy)])
                                @@ (Lit.timestamp :> [type |-> "string", format |-> "date-time"])])])]))]

\* the methods that get a request body (line 341)
BodyMethods == {Lit.post, Lit.put, Lit.patch}

\* the operation built for one method of a route (lines 320-348); the route's
\* docstring is a str here
RouteOperation(route, method) ==
    LET method_lower == Lower(method)
        dflt      == Some(method \o Lit.space \o route.path)
        docstring == DictGet(route, "docstring", dflt)
        base ==
            [summary     |-> SplitChar(docstring.v, "\n")[1],
             operationId |-> method_lower \o Lit.underscore \o route.function,
             responses   |-> (Lit.code200 :>
                                [description |-> "Successful response",
                                 content     |-> JsonContent(ObjectSchema)])]
        described ==
            IF ~route.docstring.isNone /\ route.docstring.v # << >>
            THEN DictPut(base, "description", route.docstring.v)
            ELSE base
    IN  IF method_lower \in BodyMethods
        THEN DictPut(described, "requestBody", [content |-> JsonContent(ObjectSchema)])
        ELSE described

\* the for loop of _add_route_to_spec from the k-th method on.  route.get('docstring',
\* default) returns None when the key is present with value None, and None.split
\* raises AttributeError: the loop stops there, with what was inserted before kept.
RECURSIVE AddMethods(_, _, _)
AddMethods(spec, route, k) ==
    IF k > Len(route.methods) THEN [spec |-> spec, raised |-> FALSE]
    ELSE IF DictGet(route, "docstring", Some(<< >>)).isNone
    THEN [spec |-> spec, raised |-> TRUE]
    ELSE LET method == route.methods[k]
             op     == RouteOperation(route, method)
         IN  AddMethods([spec EXCEPT !.paths[route.path] = DictPut(@, Lower(method), op)],
                        route, k + 1)

\* _add_route_to_spec(spec, route): the specification afterwards and whether it raised
_add_route_to_spec(spec, route) ==
    LET path == route.path
        spec0 == IF path \notin DOMAIN spec.paths
                 THEN [spec EXCEPT !.paths = DictPut(@, path, EmptyDict)]
                 ELSE spec
    IN  AddMethods(spec0, route, 1)

\* the loop "for route in routes: self._add_route_to_spec(spec, route)" from the k-th
\* route on; an exception leaves the loop (it is caught per file, line 228)
RECURSIVE AddRoutes(_, _, _)
AddRoutes(spec, routes, k) ==
    IF k > Len(routes) THEN [spec |-> spec, raised |-> FALSE]
    ELSE LET r == _add_route_to_spec(spec, routes[k])
         IN  IF r.raised THEN r ELSE AddRoutes(r.spec, routes, k + 1)

(***************************************************************************)
(* Example synthesis                                                       *)
(***************************************************************************)
IsIdLike(field_name) == EndsWith(field_name, Lit.id_suffix) \/ field_name = Lit.id

\* lines 536-558: the example of a string field
StringExample(field_name, format_type) ==
    LET lname == Lower(field_name)
    IN  IF format_type = "email" THEN PyStr(Lit.ex_email)
        ELSE IF format_type = "date" THEN PyStr(Lit.ex_date)
        ELSE IF format_type = "date-time" THEN PyStr(Lit.ex_datetime)
        ELSE IF format_type = "uri" THEN PyStr(Lit.ex_uri)
        ELSE IF Contains(lname, Lit.password) THEN PyStr(Lit.ex_password)
        ELSE IF Contains(lname, Lit.email) THEN PyStr(Lit.ex_email)
        ELSE IF Contains(lname, Lit.name) THEN PyStr(Lit.ex_name)
        ELSE IF Contains(lname, Lit.title) THEN PyStr(Lit.ex_title)
        ELSE IF Contains(lname, Lit.description) THEN PyStr(Lit.ex_description)
        ELSE IF IsIdLike(field_name) THEN PyStr(Lit.ex_id)
        ELSE PyStr(Lit.ex_prefix \o field_name)

\* mutant: the "age" rule is missing
IntegerExampleWithoutAge(field_name) ==
    LET lname == Lower(field_name)
    IN  IF Contains(lname, Lit.count) THEN PyInt(10)
        ELSE IF Contains(lname, Lit.port) THEN PyInt(8080)
        ELSE IF IsIdLike(field_name) THEN PyInt(123)
        ELSE PyInt(42)

\* lines 560-570: the example of an integer field
IntegerExample(field_name) ==
    LET lname == Lower(field_name)
    IN  IF Contains(lname, Lit.age) THEN PyInt(25)
        ELSE IF Contains(lname, Lit.count) THEN PyInt(10)
        ELSE IF Contains(lname, Lit.port) THEN PyInt(8080)
        ELSE IF IsIdLike(field_name) THEN PyInt(123)
        ELSE PyInt(42)

\* lines 572-578: the example of a number field
NumberExample(field_name) ==
    LET lname == Lower(field_name)
    IN  IF Contains(lname, Lit.price) THEN PyFloat(1999)
        ELSE IF Contains(lname, Lit.percentage) THEN PyFloat(7550)
        ELSE PyFloat(314)

RECURSIVE _create_example_from_schema(_)
RECURSIVE _create_example_value(_, _)

\* _create_example_value(field_name, schema)
_create_example_value(field_name, schema) ==
    LET field_type  == DictGet(schema, "type", "string")
        format_type == DictGet(schema, "format", "")
    IN  IF "example" \in DOMAIN schema THEN schema.example
        ELSE IF field_type = "string" THEN StringExample(field_name, format_type)
        ELSE IF field_type = "integer" THEN IntegerExample(field_name)
        ELSE IF field_type = "number" THEN NumberExample(field_name)
        ELSE IF field_type = "boolean" THEN PyBool(TRUE)
        ELSE IF field_type = "array" THEN
            PyList(<< _create_example_value(Lit.item,
                                            DictGet(schema, "items", [type |-> "string"])) >>)
        ELSE IF field_type = "object" THEN _create_example_from_schema(schema)
        ELSE PyNone

\* _create_example_from_schema(schema)
_create_example_from_schema(schema) ==
    LET type == DictGet(schema, "type", "")
    IN  IF type = "object" THEN
            LET properties == DictGet(schema, "properties", EmptyDict)
            IN  PyDict([p \in DOMAIN properties |-> _create_example_value(p, properties[p])])
        ELSE IF type = "array" THEN
            PyList(<< _create_example_value(Lit.item,
                                            DictGet(schema, "items", [type |-> "string"])) >>)
        ELSE _create_example_value(Lit.value, schema)

\* mutant: every declared property is rendered
CreateMinimalExampleOfAllProperties(schema) ==
    LET properties == DictGet(schema, "properties", EmptyDict)
    IN  PyDict([f \in DOMAIN properties |-> _create_example_value(f, properties[f])])

\* _create_minimal_example(schema)
_create_minimal_example(schema) ==
    LET required_fields == DictGet(schema, "required", << >>)
        properties      == DictGet(schema, "properties", EmptyDict)
        present         == {f \in Range(required_fields) : f \in DOMAIN properties}
    IN  PyDict([f \in present |-> _create_example_value(f, properties[f])])

\* _generate_examples_from_schema(schema)
_generate_examples_from_schema(schema) ==
    IF DictGet(schema, "type", "") = "object" THEN
        LET example_1 ==
                ("example_1" :>
                    [summary     |-> "Valid request example",
                     description |-> "A complete example with all available fields",
                     value       |-> _create_example_from_schema(schema)])
        IN  IF "required" \in DOMAIN schema
            THEN ("minimal_example" :>
                    [summary     |-> "Minimal request example",
                     description |-> "Example with only required fields",
                     value       |-> _create_minimal_example(schema)]) @@ example_1
            ELSE example_1
    ELSE EmptyDict

\* mutant: the example of a client error is synthesized from the schema
ResponseExamplesFromSchema(status_code, schema) ==
    IF StartsWith(status_code, <<"2">>) THEN
        ("success" :> [summary |-> "Successful response",
                       value   |-> _create_example_from_schema(schema)])
    ELSE IF StartsWith(status_code, <<"4">>) THEN
        ("error" :> [summary |-> "Error response",
                     value   |-> _create_example_from_schema(schema)])
    ELSE IF StartsWith(status_code, <<"5">>) THEN
        ("server_error" :> [summary |-> "Server error response",
                            value   |-> PyDict(
                                (Lit.err_error :> PyStr(Lit.server_error))
                                @@ (Lit.err_message :> PyStr(Lit.unexpected)))])
    ELSE EmptyDict

\* _generate_response_examples(status_code, schema)
_generate_response_examples(status_code, schema) ==
    IF StartsWith(status_code, <<"2">>) THEN
        ("success" :> [summary |-> "Successful response",
                       value   |-> _create_example_from_schema(schema)])
    ELSE IF StartsWith(status_code, <<"4">>) THEN
        ("error" :> [summary |-> "Error response",
                     value   |-> PyDict(
                        (Lit.err_error :> PyStr(Lit.bad_request))
                        @@ (Lit.err_message :> PyStr(Lit.invalid_input))
                        @@ (Lit.err_details :> PyList(<< PyStr(Lit.validation_failed) >>)))])
    ELSE IF StartsWith(status_code, <<"5">>) THEN
        ("server_error" :> [summary |-> "Server error response",
                            value   |-> PyDict(
                                (Lit.err_error :> PyStr(Lit.server_error))
                                @@ (Lit.err_message :> PyStr(Lit.unexpected)))])
    ELSE EmptyDict

(***************************************************************************)
(* Specification Enricher                                                  *)
(***************************************************************************)
\* other ASCII characters, with their code points
PunctChars == <<" ", "!", "\"", "#", "$", "%", "&", "'", "(", ")", "*", "+", ",", "-", ".", "/",
                ":", ";", "<", "=", ">", "?", "@", "[", "]", "^", "_", "{", "|", "}", "~">>
PunctCodes == <<32, 33, 34, 35, 36, 37, 38, 39, 40, 41, 42, 43, 44, 45, 46, 47,
                58, 59, 60, 61, 62, 63, 64, 91, 93, 94, 95, 123, 124, 125, 126>>

\* ord(c)
Ord(c) ==
    IF c \in Range(LowerChars) THEN 96 + IndexIn(LowerChars, c)
    ELSE IF c \in Range(UpperChars) THEN 64 + IndexIn(UpperChars, c)
    ELSE IF c \in Range(DigitChars) THEN 47 + IndexIn(DigitChars, c)
    ELSE IF c \in Range(PunctChars) THEN PunctCodes[IndexIn(PunctChars, c)]
    ELSE 0

\* a < b for two str values (code point order, a proper prefix is smaller)
StrLess(a, b) ==
    \E i \in 1..(Len(b)) :
        /\ i <= Len(a) + 1
        /\ Slice(a, 1, i - 1) = Slice(b, 1, i - 1)
        /\ (i = Len(a) + 1 \/ Ord(a[i]) < Ord(b[i]))

\* sorted(S) for a set of str values
Sorted(S) ==
    [k \in 1..Cardinality(S) |-> CHOOSE x \in S : Cardinality({y \in S : StrLess(y, x)}) = k - 1]

IsLetter(c) == c \in Range(LowerChars) \cup Range(UpperChars)

\* str.title()
Title(s) ==
    [i \in 1..Len(s) |-> IF i = 1 \/ ~IsLetter(s[i - 1]) THEN UpperChar(s[i]) ELSE LowerChar(s[i])]

\* mutant: the "api" prefix is not skipped
TagSetFirstSegment(paths) ==
    LET parts(path) == SplitChar(StripChars(path, {"/"}), "/")
        tagged      == {path \in DOMAIN paths : parts(path)[1] # << >>}
    IN  {parts(path)[1] : path \in tagged}

\* the set "tags" built by the loop of _generate_tags_from_paths (lines 420-426)
TagSet(paths) ==
    LET parts(path) == SplitChar(StripChars(path, {"/"}), "/")
        tagged      == {path \in DOMAIN paths : parts(path)[1] # << >>}
    IN  {IF parts(path)[1] = Lit.api /\ Len(parts(path)) > 1
         THEN parts(path)[2] ELSE parts(path)[1] : path \in tagged}

\* _generate_tags_from_paths(paths)
_generate_tags_from_paths(paths) ==
    LET sorted == Sorted(TagSet(paths))
    IN  [k \in 1..Len(sorted) |->
            [name |-> sorted[k], description |-> Title(sorted[k]) \o Lit.operations]]

\* mutant: examples are generated for every entry that has a schema
WithRequestExamplesOverwriting(contents) ==
    [ct \in DOMAIN contents |->
        IF "schema" \in DOMAIN contents[ct]
        THEN DictPut(contents[ct], "examples",
                     _generate_examples_from_schema(contents[ct].schema))
        ELSE contents[ct]]

\* lines 433-437: the content entries of the request body, with examples where a schema
\* has none
WithRequestExamples(contents) ==
    [ct \in DOMAIN contents |->
        IF "schema" \in DOMAIN contents[ct] /\ "examples" \notin DOMAIN contents[ct]
        THEN DictPut(contents[ct], "examples",
                     _generate_examples_from_schema(contents[ct].schema))
        ELSE contents[ct]]

\* lines 439-443: the content entries of one response, with examples where a schema
\* has none
WithResponseExamples(status_code, contents) ==
    [ct \in DOMAIN contents |->
        IF "schema" \in DOMAIN contents[ct] /\ "examples" \notin DOMAIN contents[ct]
        THEN DictPut(contents[ct], "examples",
                     _generate_response_examples(status_code, contents[ct].schema))
        ELSE contents[ct]]

\* _enhance_operation(operation): the operation afterwards
_enhance_operation(operation) ==
    LET op1 ==
            IF "requestBody" \in DOMAIN operation /\ "content" \in DOMAIN operation.requestBody
            THEN [operation EXCEPT !.requestBody.content = WithRequestExamples(@)]
            ELSE operation
        Resp(status_code, response) ==
            IF "content" \in DOMAIN response
            THEN [response EXCEPT !.content = WithResponseExamples(status_code, @)]
            ELSE response
    IN  IF "responses" \in DOMAIN op1
        THEN [op1 EXCEPT !.responses = [sc \in DOMAIN @ |-> Resp(sc, @[sc])]]
        ELSE op1

\* the server list written by the Enricher (lines 356-369)
DefaultServers ==
    << [url |-> "http://localhost:8000", description |-> "Development server"],
       [url |-> "http://localhost:5000", description |-> "Alternative development server"],
       [url |-> "https://api.example.com", description |-> "Production server"] >>

\* the keys layered over info (lines 375-384)
InfoDefaults ==
    [contact |-> [name  |-> "API Support",
                  email |-> "api-support@example.com",
                  url   |-> "https://example.com/support"],
     license |-> [name |-> "MIT", url |-> "https://opensource.org/licenses/MIT"],
     termsOfService |-> "https://example.com/terms"]

\* the default security schemes (lines 392-403)
DefaultSecuritySchemes ==
    [bearerAuth |-> [type |-> "http", scheme |-> "bearer", bearerFormat |-> "JWT"],
     apiKey     |-> [type |-> "apiKey", in |-> "header", name |-> "X-API-Key"]]

\* mutant: the default servers are appended to the servers already there
EnrichServersAppending(spec) ==
    DictPut(spec, "servers", DictGet(spec, "servers", << >>) \o DefaultServers)

\* lines 356-369: servers is overwritten
EnrichServers(spec) == DictPut(spec, "servers", DefaultServers)

\* lines 372-385: {**info, contact, license, termsOfService}
EnrichInfo(spec) == DictPut(spec, "info", InfoDefaults @@ DictGet(spec, "info", EmptyDict))

\* mutant: the defaults also replace security schemes that are present and empty
EnrichSecurityWhenEmpty(spec) ==
    LET s == IF "components" \notin DOMAIN spec
             THEN DictPut(spec, "components", EmptyDict) ELSE spec
    IN  IF DictGet(s.components, "securitySchemes", EmptyDict) = EmptyDict
        THEN [s EXCEPT !.components = DictPut(@, "securitySchemes", DefaultSecuritySchemes)]
        ELSE s

\* lines 388-403: components and components.securitySchemes are added when absent
EnrichSecurity(spec) ==
    LET s == IF "components" \notin DOMAIN spec
             THEN DictPut(spec, "components", EmptyDict) ELSE spec
    IN  IF "securitySchemes" \notin DOMAIN s.components
        THEN [s EXCEPT !.components = DictPut(@, "securitySchemes", DefaultSecuritySchemes)]
        ELSE s

\* lines 406-407: tags are derived when absent
EnrichTags(spec) ==
    IF "tags" \notin DOMAIN spec
    THEN DictPut(spec, "tags", _generate_tags_from_paths(DictGet(spec, "paths", EmptyDict)))
    ELSE spec

\* lines 410-412: every operation of every path is enhanced
EnrichOperations(spec) ==
    IF "paths" \in DOMAIN spec
    THEN [spec EXCEPT !.paths =
            [path \in DOMAIN @ |->
                [method \in DOMAIN @[path] |-> _enhance_operation(@[path][method])]]]
    ELSE spec

\* _enhance_openapi_spec(spec)
_enhance_openapi_spec(spec) ==
    EnrichOperations(EnrichTags(EnrichSecurity(EnrichInfo(EnrichServers(spec)))))

(***************************************************************************)
(* Framework Detector                                                      *)
(***************************************************************************)
\* the signatures looked for in manifests (lines 40-47) and the import statements
\* looked for in source files (lines 53-60)
Sig == [
    fastapi        |-> <<"f","a","s","t","a","p","i">>,
    flask_restx    |-> <<"f","l","a","s","k","-","r","e","s","t","x">>,
    drf            |-> <<"d","j","a","n","g","o","r","e","s","t","f","r","a","m","e","w","o","r","k">>,
    flask          |-> <<"f","l","a","s","k">>,
    from_fastapi   |-> <<"f","r","o","m"," ","f","a","s","t","a","p","i"," ","i","m","p","o","r","t">>,
    import_fastapi |-> <<"i","m","p","o","r","t"," ","f","a","s","t","a","p","i">>,
    from_restx     |-> <<"f","r","o","m"," ","f","l","a","s","k","_","r","e","s","t","x"," ","i","m","p","o","r","t">>,
    from_drf       |-> <<"f","r","o","m"," ","r","e","s","t","_","f","r","a","m","e","w","o","r","k">>,
    from_flask     |-> <<"f","r","o","m"," ","f","l","a","s","k"," ","i","m","p","o","r","t">>
]

\* no signature was found
NoFramework == ""

\* mutant: the flask signature is looked for first
ManifestMatchFlaskFirst(text) ==
    LET content == Lower(text)
    IN  IF Contains(content, Sig.flask) THEN "flask"
        ELSE IF Contains(content, Sig.fastapi) THEN "fastapi"
        ELSE IF Contains(content, Sig.drf) THEN "django-drf"
        ELSE NoFramework

\* lines 39-47: the framework a manifest with the given text decides, if any
ManifestMatch(text) ==
    LET content == Lower(text)
    IN  IF Contains(content, Sig.fastapi) THEN "fastapi"
        ELSE IF Contains(content, Sig.flask_restx) THEN "flask-restx"
        ELSE IF Contains(content, Sig.drf) THEN "django-drf"
        ELSE IF Contains(content, Sig.flask) THEN "flask"
        ELSE NoFramework

\* lines 52-60: the framework a source file with the given text decides, if any
ImportMatch(content) ==
    IF Contains(content, Sig.from_fastapi) \/ Contains(content, Sig.import_fastapi)
    THEN "fastapi"
    ELSE IF Contains(content, Sig.from_restx) THEN "flask-restx"
    ELSE IF Contains(content, Sig.from_drf) THEN "django-drf"
    ELSE IF Contains(content, Sig.from_flask) THEN "flask"
    ELSE NoFramework

\* what detect_framework does: it returns a framework or an exception leaves it
Detected(framework) == [raised |-> FALSE, framework |-> framework]
DetectRaised == [raised |-> TRUE, framework |-> NoFramework]

\* lines 50-62: the loop over the source files from position i on; a file whose read
\* raises is skipped by the bare except
RECURSIVE ScanSources(_, _)
ScanSources(sources, i) ==
    IF i > Len(sources) THEN Detected("unknown")
    ELSE IF ~sources[i].readable THEN ScanSources(sources, i + 1)
    ELSE IF ImportMatch(sources[i].content) # NoFramework
    THEN Detected(ImportMatch(sources[i].content))
    ELSE ScanSources(sources, i + 1)

\* lines 37-47: the loop over the manifests from position i on; read_text() is not
\* inside a try, so a manifest that exists and cannot be read raises
RECURSIVE ScanManifests(_, _)
ScanManifests(tree, i) ==
    IF i > Len(tree.manifests) THEN ScanSources(tree.sources, 1)
    ELSE IF ~tree.manifests[i].exists THEN ScanManifests(tree, i + 1)
    ELSE IF ~tree.manifests[i].readable THEN DetectRaised
    ELSE IF ManifestMatch(tree.manifests[i].content) # NoFramework
    THEN Detected(ManifestMatch(tree.manifests[i].content))
    ELSE ScanManifests(tree, i + 1)

\* detect_framework() on a project tree
detect_framework(tree) == ScanManifests(tree, 1)

(***************************************************************************)
(* Inputs: the source files of a project.  A file is described by the      *)
(* route declarations written in it; its text is rendered from them, and   *)
(* the extractor only ever sees the text.                                  *)
(***************************************************************************)
Txt == [
    GET     |-> <<"G","E","T">>,
    POST    |-> <<"P","O","S","T">>,
    PUT     |-> <<"P","U","T">>,
    DELETE  |-> <<"D","E","L","E","T","E">>,
    users   |-> <<"u","s","e","r","s">>,
    items   |-> <<"i","t","e","m","s">>,
    health  |-> <<"h","e","a","l","t","h">>,
    orders  |-> <<"o","r","d","e","r","s">>,
    ping    |-> <<"p","i","n","g">>,
    p_users  |-> <<"/","u","s","e","r","s">>,
    p_items  |-> <<"/","i","t","e","m","s">>,
    p_health |-> <<"/","h","e","a","l","t","h">>,
    p_orders |-> <<"/","a","p","i","/","o","r","d","e","r","s">>,
    p_ping   |-> <<"/","p","i","n","g">>,
    p_api    |-> <<"/","a","p","i">>,
    p_root   |-> <<"/">>,
    p_deep   |-> <<"/","a","p","i","/","u","s","e","r","s","/","{","i","d","}">>,
    doc      |-> <<"D","o","c"," ">>,
    more     |-> <<"m","o","r","e"," ","d","e","t","a","i","l">>,
    indent   |-> <<" "," "," "," ">>,
    body     |-> <<" "," "," "," ","r","e","t","u","r","n"," ","j","s","o","n","i","f","y","(","{","}",")">>,
    import   |-> <<"i","m","p","o","r","t"," ","o","s">>,
    def      |-> <<"d","e","f"," ">>,
    sig      |-> <<"(",")",":">>,
    async    |-> <<"a","s","y","n","c"," ">>,
    param    |-> <<"u","s","e","r","_","i","d","=","N","o","n","e">>,
    PATCH    |-> <<"P","A","T","C","H">>,
    HEAD     |-> <<"H","E","A","D">>,
    OPTIONS  |-> <<"O","P","T","I","O","N","S">>,
    helper   |-> <<"h","e","l","p","e","r">>,
    code400  |-> <<"4","0","0">>,
    code500  |-> <<"5","0","0">>,
    code404  |-> <<"4","0","4">>,
    code503  |-> <<"5","0","3">>,
    email    |-> <<"e","m","a","i","l">>,
    age      |-> <<"a","g","e">>,
    active   |-> <<"a","c","t","i","v","e">>
]

\* a route declaration: methods = << >> stands for a declaration without a methods
\* list; spaced says whether the list items are separated by ", " or by ","; doc is
\* the form of the docstring ("none", "one": on one line, "multi": over three lines,
\* "empty": the empty docstring on one line, "single": on one line in single quotes,
\* "blank": on one line after a blank line, "late": a string after the first
\* statement); kind is the form of the definition ("plain", "async", or "multiline":
\* the signature runs over two lines)
Decl(path, methods, spaced, function, doc) ==
    [path |-> path, methods |-> methods, spaced |-> spaced, function |-> function,
     doc |-> doc, kind |-> "plain"]

\* the declaration with another form of definition
DeclOfKind(d, kind) == [d EXCEPT !.kind = kind]

\* the first line of the docstring written for a declaration
DocFirstLine(d) == Txt.doc \o d.function

\* the lines written for one declaration: the route decorator, the definition of
\* the handler, its docstring and its body
DeclLines(d) ==
    LET quoted == [k \in 1..Len(d.methods) |-> <<"'">> \o d.methods[k] \o <<"'">>]
        list   == IF d.methods = << >> THEN << >>
                  ELSE <<",", " ">> \o Lit.methods_open
                       \o Join(quoted, IF d.spaced THEN <<",", " ">> ELSE <<",">>) \o <<"]">>
        route  == Lit.route_open \o <<"'">> \o d.path \o <<"'">> \o list \o <<")">>
        def    == IF d.kind = "async"
                  THEN << Txt.async \o Txt.def \o d.function \o Txt.sig >>
                  ELSE IF d.kind = "multiline"
                  THEN << Txt.def \o d.function \o <<"(">>,
                          Txt.indent \o Txt.param \o <<")", ":">> >>
                  ELSE << Txt.def \o d.function \o Txt.sig >>
        oneline == Txt.indent \o Lit.dquote3 \o DocFirstLine(d) \o Lit.dquote3
        doc    == IF d.doc = "one" THEN << oneline >>
                  ELSE IF d.doc = "multi"
                  THEN << Txt.indent \o Lit.dquote3 \o DocFirstLine(d),
                          Txt.indent \o Txt.more,
                          Txt.indent \o Lit.dquote3 >>
                  ELSE IF d.doc = "empty"
                  THEN << Txt.indent \o Lit.dquote3 \o Lit.dquote3 >>
                  ELSE IF d.doc = "single"
                  THEN << Txt.indent \o Lit.squote3 \o DocFirstLine(d) \o Lit.squote3 >>
                  ELSE IF d.doc = "blank" THEN << << >>, oneline >>
                  ELSE IF d.doc = "late" THEN << Txt.body, oneline >>
                  ELSE << >>
    IN  <<route>> \o def \o doc \o <<Txt.body, << >> >>

RECURSIVE DeclsLines(_)
DeclsLines(decls) ==
    IF decls = << >> THEN << >> ELSE DeclLines(Head(decls)) \o DeclsLines(Tail(decls))

\* a readable source file with the given declarations
SourceFile(decls) ==
    [readable |-> TRUE, decls |-> decls,
     content  |-> Join(<<Txt.import, << >> >> \o DeclsLines(decls), Lit.newline)]

\* a readable source file with two route declarations stacked on one handler
StackedFile ==
    LET upper == Decl(Txt.p_root, << >>, FALSE, Txt.items, "one")
        lower == Decl(Txt.p_deep, <<Txt.GET>>, FALSE, Txt.items, "one")
    IN  [readable |-> TRUE, decls |-> <<upper, lower>>,
         content  |-> Join(<<Txt.import, << >>, DeclLines(upper)[1]>> \o DeclLines(lower),
                           Lit.newline)]

\* a file whose read_text() raises (it cannot be decoded as text)
UnreadableFile == [readable |-> FALSE, decls |-> << >>, content |-> << >>]

FilePool ==
    { SourceFile(<< >>),
      SourceFile(<< Decl(Txt.p_users, <<Txt.GET, Txt.POST>>, FALSE, Txt.users, "one") >>),
      SourceFile(<< Decl(Txt.p_items, <<Txt.GET, Txt.POST>>, TRUE, Txt.items, "multi") >>),
      SourceFile(<< Decl(Txt.p_health, << >>, FALSE, Txt.health, "none"),
                    Decl(Txt.p_orders, <<Txt.PUT>>, FALSE, Txt.orders, "one") >>),
      SourceFile(<< Decl(Txt.p_ping, <<Txt.DELETE>>, FALSE, Txt.ping, "multi") >>),
      SourceFile(<< Decl(Txt.p_api, <<Txt.GET>>, FALSE, Txt.users, "one") >>),
      StackedFile,
      UnreadableFile }

\* the most files a project holds
MaxFiles == 2

\* the projects: the files in the order rglob yields them
Projects == UNION {[1..n -> FilePool] : n \in 0..MaxFiles}

(***************************************************************************)
(* Inputs: the specification an introspected application exports           *)
(***************************************************************************)
PersonSchema ==
    [type |-> "object",
     properties |-> (Txt.email :> [type |-> "string"])
                    @@ (Txt.age :> [type |-> "integer"])
                    @@ (Txt.active :> [type |-> "boolean"]),
     required |-> << Txt.email >>]

CustomExamples ==
    ("custom" :> [summary |-> "Supplied by the application",
                  value   |-> PyDict((Txt.email :> PyStr(Txt.users)))])

\* the path items an application may export, one per path of the pool
PathItems ==
    (Txt.p_users :>
       ((Lit.get :> [summary   |-> Txt.users,
                     responses |-> (Lit.code200 :> [description |-> "OK",
                                                    content |-> JsonContent(PersonSchema)])
                                   @@ (Txt.code400 :> [description |-> "Bad",
                                                       content |-> JsonContent(ObjectSchema)])])
        @@ (Lit.post :> [summary     |-> Txt.users,
                         requestBody |-> [content |-> JsonContent(PersonSchema)],
                         responses   |-> (Lit.code200 :> [description |-> "Created"])])))
    @@ (Txt.p_orders :>
        (Lit.put :> [summary     |-> Txt.orders,
                     requestBody |-> [content |-> (Lit.json :> [schema   |-> PersonSchema,
                                                                examples |-> CustomExamples])],
                     responses   |-> (Lit.code200 :> [description |-> "OK",
                                                      content |-> (Lit.json :>
                                                            [schema   |-> ObjectSchema,
                                                             examples |-> CustomExamples])])
                                     @@ (Txt.code500 :> [description |-> "Failed",
                                                         content |-> JsonContent(ObjectSchema)])]))
    @@ (Txt.p_api :>
        (Lit.get :> [summary |-> Lit.api, responses |-> (Lit.code200 :> [description |-> "OK"])]))
    @@ (Txt.p_health :> _generate_generic_spec.paths[Lit.health_path])
    @@ (Txt.p_root :> (Lit.get :> [summary |-> Txt.p_root]))
    @@ (Txt.p_deep :>
        (Lit.patch :> [summary     |-> Txt.users,
                       requestBody |-> [content |-> JsonContent([type |-> "string"])],
                       responses   |-> (Lit.code200 :>
                                            [description |-> "OK",
                                             content |-> JsonContent(
                                                [type |-> "array",
                                                 items |-> [type |-> "integer"]])])
                                        @@ (Txt.code404 :>
                                            [description |-> "Not found",
                                             content |-> JsonContent(PersonSchema)])
                                        @@ (Txt.code503 :>
                                            [description |-> "Unavailable",
                                             content |-> JsonContent(PersonSchema)])]))

\* the most paths an exported specification holds
MaxPaths == 4

PathSets == {P \in SUBSET (DOMAIN PathItems) : Cardinality(P) <= MaxPaths}

InfoChoices ==
    { EmptyDict,
      [title |-> "Shop", version |-> "2.0"],
      [title |-> "Shop", version |-> "2.0", contact |-> [name |-> "Shop team"]] }

ComponentsChoices ==
    { EmptyDict,
      [schemas |-> EmptyDict],
      [securitySchemes |-> EmptyDict],
      [schemas |-> EmptyDict,
       securitySchemes |-> [oauth |-> [type |-> "oauth2"]]] }

TopLevelChoices ==
    { EmptyDict,
      [tags |-> << [name |-> Txt.users, description |-> Txt.doc] >>],
      [servers |-> << [url |-> "https://shop.example", description |-> "Shop"] >>],
      [components |-> EmptyDict] }

\* the specifications app.openapi() may return: "info" and "components" are present
\* or absent, "tags" and "servers" likewise
IntrospectedSpecs ==
    { [openapi |-> "3.1.0", paths |-> [p \in P |-> PathItems[p]]]
      @@ (IF info = EmptyDict THEN EmptyDict ELSE [info |-> info])
      @@ (IF comps = EmptyDict THEN EmptyDict ELSE [components |-> comps])
      @@ top
      : P \in PathSets, info \in InfoChoices, comps \in ComponentsChoices,
        top \in TopLevelChoices }

\* what the introspection finds: whether an application file was found, the exit code
\* of the subprocess and what it printed ("empty": nothing, "garbage": not JSON,
\* "spec": the JSON of spec)
Probe(app_found, returncode, stdout, spec) ==
    [app_found |-> app_found, returncode |-> returncode, stdout |-> stdout, spec |-> spec]

\* before the introspection ran, and on the paths that do not run it
NoProbe == Probe(FALSE, 0, "none", EmptyDict)

ProbeOutcomes ==
    { Probe(FALSE, 0, "empty", EmptyDict),
      Probe(TRUE, 1, "empty", EmptyDict),
      Probe(TRUE, 1, "garbage", EmptyDict),
      Probe(TRUE, 0, "empty", EmptyDict),
      Probe(TRUE, 0, "garbage", EmptyDict) }
    \cup { Probe(TRUE, 0, "spec", s) : s \in IntrospectedSpecs }

(***************************************************************************)
(* Inputs: the source texts given to the Route Extractor taken alone       *)
(***************************************************************************)
\* one declaration in every combination of path (with and without the leading
\* slash), methods list (none, one method, two methods unspaced and spaced),
\* docstring and definition
ExtractionDecls ==
    { DeclOfKind(Decl(path, ml.methods, ml.spaced, Txt.users, doc), kind) :
        path \in {Txt.p_users, Txt.users},
        ml \in { [methods |-> << >>, spaced |-> FALSE],
                 [methods |-> <<Txt.POST>>, spaced |-> FALSE],
                 [methods |-> <<Txt.GET, Txt.POST>>, spaced |-> FALSE],
                 [methods |-> <<Txt.GET, Txt.PUT>>, spaced |-> TRUE] },
        doc \in {"none", "one", "multi", "empty", "single", "blank", "late"},
        kind \in {"plain", "async", "multiline"} }

\* the files given to the extractor: one declaration, or an async or multi-line
\* handler followed by the route of a plain one
ExtractionFiles ==
    { SourceFile(<<d>>) : d \in ExtractionDecls }
    \cup { SourceFile(<< DeclOfKind(Decl(Txt.p_users, << >>, FALSE, Txt.users, "one"), kind),
                         Decl(Txt.p_items, <<Txt.GET>>, FALSE, Txt.items, doc) >>) :
            kind \in {"plain", "async", "multiline"},
            doc \in {"none", "one", "multi", "empty", "single", "blank", "late"} }
    \cup { StackedFile, SourceFile(<< >>) }

(***************************************************************************)
(* Inputs: the calls of the example synthesis                              *)
(***************************************************************************)
\* field names, as char sequences
Names == [
    age         |-> <<"a","g","e">>,
    Age         |-> <<"A","g","e">>,
    page        |-> <<"p","a","g","e">>,
    count       |-> <<"c","o","u","n","t">>,
    Item_Count  |-> <<"I","t","e","m","_","C","o","u","n","t">>,
    port        |-> <<"p","o","r","t">>,
    id          |-> <<"i","d">>,
    ID          |-> <<"I","D">>,
    user_id     |-> <<"u","s","e","r","_","i","d">>,
    USER_ID     |-> <<"U","S","E","R","_","I","D">>,
    price       |-> <<"p","r","i","c","e">>,
    percentage  |-> <<"p","e","r","c","e","n","t","a","g","e">>,
    password    |-> <<"p","a","s","s","w","o","r","d">>,
    email       |-> <<"e","m","a","i","l">>,
    name        |-> <<"n","a","m","e">>,
    Name        |-> <<"N","a","m","e">>,
    title       |-> <<"t","i","t","l","e">>,
    description |-> <<"d","e","s","c","r","i","p","t","i","o","n">>,
    active      |-> <<"a","c","t","i","v","e">>,
    note        |-> <<"n","o","t","e">>
]

FieldNames == {Names[f] : f \in DOMAIN Names}

\* the schemas of single fields: each type, with and without a format or an explicit
\* example
FieldSchemas ==
    { [type |-> "string"], [type |-> "integer"], [type |-> "number"], [type |-> "boolean"],
      EmptyDict,
      [type |-> "string", format |-> "email"],
      [type |-> "string", format |-> "date-time"],
      [type |-> "null"],
      [type |-> "string", example |-> PyStr(Txt.users)],
      [type |-> "integer", example |-> PyInt(7)],
      [type |-> "array", items |-> [type |-> "integer"],
       example |-> PyList(<<PyInt(1), PyInt(2)>>)],
      [type |-> "object", properties |-> (Names.id :> [type |-> "integer"]),
       example |-> PyDict((Names.id :> PyInt(7)))] }

\* the schema of the minimal-example case: name is required, email is not
NameEmailSchema ==
    [type |-> "object",
     properties |-> (Names.name :> [type |-> "string"]) @@ (Names.email :> [type |-> "string"]),
     required |-> << Names.name >>]

\* object and array schemas passed to the synthesis as a whole
WholeSchemas ==
    { PersonSchema, NameEmailSchema, ObjectSchema,
      [type |-> "object",
       properties |-> (Names.id :> [type |-> "integer"]) @@ (Names.ID :> [type |-> "integer"])
                      @@ (Names.name :> [type |-> "string", example |-> PyStr(Txt.users)]),
       required |-> << Names.id, Names.note >>],
      [type |-> "object",
       properties |-> (Names.user_id :> [type |-> "string"])
                      @@ (Names.price :> [type |-> "number"])
                      @@ (Names.active :>
                            [type |-> "object",
                             properties |-> (Names.count :> [type |-> "integer"]),
                             example |-> PyDict((Names.count :> PyInt(3)))]),
       required |-> << >>],
      [type |-> "array", items |-> [type |-> "integer"]],
      [type |-> "array"] }
    \cup FieldSchemas

\* a call of the synthesis
Call(op, field_name, schema) == [op |-> op, field_name |-> field_name, schema |-> schema]

\* no call is made
NoCall == Call("none", << >>, EmptyDict)

SynthesisCalls ==
    { Call("value", n, sch) : n \in FieldNames, sch \in FieldSchemas }
    \cup { Call("from_schema", << >>, sch) : sch \in WholeSchemas }
    \cup { Call("minimal", << >>, sch) : sch \in {w \in WholeSchemas :
                                                    DictGet(w, "type", "") = "object"} }

(***************************************************************************)
(* Inputs: the project tree seen by the Framework Detector                 *)
(***************************************************************************)
\* a manifest: absent, present and unreadable, or present with a text
Manifest(exists, readable, content) ==
    [exists |-> exists, readable |-> readable, content |-> content]

ManifestPool ==
    { Manifest(FALSE, FALSE, << >>),
      Manifest(TRUE, FALSE, << >>),
      Manifest(TRUE, TRUE, <<"r","e","q","u","e","s","t","s","\n">>),
      Manifest(TRUE, TRUE, <<"F","l","a","s","k","\n","f","a","s","t","a","p","i","\n">>),
      Manifest(TRUE, TRUE, <<"f","l","a","s","k","-","r","e","s","t","x","\n">>),
      Manifest(TRUE, TRUE, <<"d","j","a","n","g","o","r","e","s","t","f","r","a","m","e","w","o","r","k","\n">>),
      Manifest(TRUE, TRUE, <<"F","l","a","s","k","=","=","2",".","3","\n">>) }

\* requirements.txt, requirements-dev.txt, pyproject.toml, in the order of line 31-35
ManifestCount == 3

\* a source file as the detector reads it
Source(readable, content) == [readable |-> readable, content |-> content]

SourcePool ==
    { Source(FALSE, << >>),
      Source(TRUE, <<"i","m","p","o","r","t"," ","o","s">>),
      Source(TRUE, <<"f","r","o","m"," ","f","l","a","s","k"," ","i","m","p","o","r","t"," ","F","l","a","s","k","\n","i","m","p","o","r","t"," ","f","a","s","t","a","p","i">>),
      Source(TRUE, <<"f","r","o","m"," ","f","l","a","s","k","_","r","e","s","t","x"," ","i","m","p","o","r","t"," ","A","p","i">>),
      Source(TRUE, <<"f","r","o","m"," ","f","l","a","s","k"," ","i","m","p","o","r","t"," ","F","l","a","s","k">>) }

\* the most source files a project tree holds
MaxSources == 2

Tree(manifests, sources) == [manifests |-> manifests, sources |-> sources]

\* the tree of a run whose framework is already set
NoTree == Tree(<< >>, << >>)

Trees ==
    { Tree(m, src) : m \in [1..ManifestCount -> ManifestPool],
                     src \in UNION {[1..n -> SourcePool] : n \in 0..MaxSources} }

(***************************************************************************)
(* The generator                                                           *)
(***************************************************************************)
\* what a call gives: a result, or an exception that leaves it
Returned(result) == [raised |-> FALSE, result |-> result]
Raised == [raised |-> TRUE, result |-> None]

\* lines 128-155, the body of the try: a zero exit code with output is parsed by
\* json.loads, which raises on text that is not JSON, and enriched; anything else
\* returns None
ExtractSpec(probe) ==
    IF probe.returncode = 0 /\ probe.stdout # "empty"
    THEN IF probe.stdout = "spec"
         THEN Returned(Some(_enhance_openapi_spec(probe.spec)))
         ELSE Raised
    ELSE Returned(None)

\* mutant: the exception of the try body is not caught
GenerateFastapiSpecUncaught(probe) ==
    IF ~probe.app_found THEN Returned(None) ELSE ExtractSpec(probe)

\* _generate_fastapi_spec(), given what the introspection finds; except Exception
\* (lines 157-159) turns an exception of the try body into None
_generate_fastapi_spec(probe) ==
    IF ~probe.app_found THEN Returned(None)
    ELSE IF ExtractSpec(probe).raised THEN Returned(None)
    ELSE ExtractSpec(probe)

\* the body of the for loop of _analyze_flask_routes for one file (lines 221-229):
\* the specification afterwards
AnalyzeFile(spec, file) ==
    IF ~file.readable THEN spec
    ELSE AddRoutes(spec, _extract_flask_routes(file.content), 1).spec

\* whether _get_example_from_request_body, a method the class does not define, is
\* looked up by the loops of lines 2073-2082 and 2163-2186
CallsMissingMethod(spec) ==
    \E path \in DOMAIN DictGet(spec, "paths", EmptyDict) :
        \E method \in DOMAIN spec.paths[path] :
            /\ Lower(method) \in BodyMethods
            /\ "requestBody" \in DOMAIN spec.paths[path][method]

\* the projections in the order generate_documentation runs them
Projections ==
    << "spec_files", "markdown_docs", "python_client", "javascript_client",
       "curl_script", "postman_collection", "sdk_guide", "test_templates",
       "validation_script" >>

FrameworkKinds == {"fastapi", "flask-restx", "django-drf", "flask", "unknown"}

VARIABLES
    framework,      \* self.framework
    project,        \* the *.py files under project_root, in rglob order
    pc,             \* where the run is
    openapi_spec,   \* the specification: None, or the dict being built or returned
    file_index,     \* the position of the loop of _analyze_flask_routes
    done,           \* the projections that ran to completion, in order
    exit_code,      \* the exit code of the process, -1 while it runs
    probe,          \* what the introspection of the application found
    call,           \* the call of the example synthesis under way
    example,        \* what that call returned
    tree,           \* the manifests and source files the detector reads
    routes,         \* the Route records _extract_flask_routes returned
    request_counts, \* template applications: the timestamps recorded per client
    clock,          \* template applications: time.time()
    threads,        \* template applications: the requests inside before_request
    admitted,       \* template applications: the timestamps of the requests let through
    reply,          \* template applications: the outcome of the latest request per client
    served          \* template applications: the number of requests answered

\* the variables of the example synthesis taken alone
synthesis == <<call, example>>

\* the variables of the rate limiter of the template applications
limiter == <<request_counts, clock, threads, admitted, reply, served>>

\* the template application is not running
LimiterIdle ==
    /\ request_counts = EmptyDict
    /\ clock = 0
    /\ threads = << >>
    /\ admitted = EmptyDict
    /\ reply = EmptyDict
    /\ served = 0

vars == <<framework, project, pc, openapi_spec, file_index, done, exit_code, probe, synthesis,
          tree, routes, limiter>>

\* the state after APIDocumentationGenerator(project_root) and the framework override
\* of main.  The source files are read by the pattern-based path only.
Init ==
    /\ framework \in FrameworkKinds
    /\ project \in (IF framework \in {"flask", "flask-restx", "django-drf"}
                    THEN Projects ELSE {<< >>})
    /\ pc = "generate"
    /\ openapi_spec = None
    /\ file_index = 1
    /\ done = << >>
    /\ exit_code = -1
    /\ probe = NoProbe
    /\ call = NoCall
    /\ example = None
    /\ tree = NoTree
    /\ routes = << >>
    /\ LimiterIdle

\* generate_openapi_spec, fastapi branch
GenerateFastapiSpec ==
    /\ pc = "generate" /\ framework = "fastapi"
    /\ probe' \in ProbeOutcomes
    /\ openapi_spec' = _generate_fastapi_spec(probe').result
    /\ pc' = IF _generate_fastapi_spec(probe').raised THEN "raised" ELSE "check"
    /\ UNCHANGED <<framework, project, file_index, done, exit_code, synthesis, tree, routes, limiter>>

\* generate_openapi_spec, flask-restx branch
GenerateFlaskRestxSpec ==
    /\ pc = "generate" /\ framework = "flask-restx"
    /\ openapi_spec' = Some(_generate_generic_spec)
    /\ pc' = "check"
    /\ UNCHANGED <<framework, project, file_index, done, exit_code, probe, synthesis, tree, routes, limiter>>

\* mutant: the django-drf branch analyzes the source files as the flask branch does
GenerateDjangoSpecFromRoutes ==
    /\ pc = "generate" /\ framework = "django-drf"
    /\ openapi_spec' = Some(_get_base_spec)
    /\ file_index' = 1
    /\ pc' = "analyze"
    /\ UNCHANGED <<framework, project, done, exit_code, probe, synthesis, tree, routes, limiter>>

\* generate_openapi_spec, django-drf branch
GenerateDjangoSpec ==
    /\ pc = "generate" /\ framework = "django-drf"
    /\ openapi_spec' = Some(_generate_generic_spec)
    /\ pc' = "check"
    /\ UNCHANGED <<framework, project, file_index, done, exit_code, probe, synthesis, tree, routes, limiter>>

\* generate_openapi_spec, else branch
GenerateGenericSpec ==
    /\ pc = "generate" /\ framework \notin {"fastapi", "flask-restx", "django-drf", "flask"}
    /\ openapi_spec' = Some(_generate_generic_spec)
    /\ pc' = "check"
    /\ UNCHANGED <<framework, project, file_index, done, exit_code, probe, synthesis, tree, routes, limiter>>

\* generate_openapi_spec, flask branch: _analyze_flask_routes starts from the base
\* specification
GenerateFlaskSpec ==
    /\ pc = "generate" /\ framework = "flask"
    /\ openapi_spec' = Some(_get_base_spec)
    /\ file_index' = 1
    /\ pc' = "analyze"
    /\ UNCHANGED <<framework, project, done, exit_code, probe, synthesis, tree, routes, limiter>>

\* one iteration of the for loop of _analyze_flask_routes
AnalyzeNextFile ==
    /\ pc = "analyze" /\ file_index <= Len(project)
    /\ openapi_spec' = Some(AnalyzeFile(openapi_spec.v, project[file_index]))
    /\ file_index' = file_index + 1
    /\ UNCHANGED <<framework, project, pc, done, exit_code, probe, synthesis, tree, routes, limiter>>

\* _analyze_flask_routes returns spec
AnalyzeReturn ==
    /\ pc = "analyze" /\ file_index > Len(project)
    /\ pc' = "check"
    /\ UNCHANGED <<framework, project, openapi_spec, file_index, done, exit_code, probe, synthesis, tree, routes, limiter>>

\* generate_documentation, lines 75-77: without a specification it returns
CheckSpec ==
    /\ pc = "check"
    /\ pc' = IF openapi_spec.isNone THEN "returned" ELSE "project"
    /\ UNCHANGED <<framework, project, openapi_spec, file_index, done, exit_code, probe, synthesis, tree, routes, limiter>>

\* whether the projection raises on the specification: the cURL script and the
\* Postman collection look up the missing method
Raises(projection, spec) ==
    projection \in {"curl_script", "postman_collection"} /\ CallsMissingMethod(spec)

\* generate_documentation, lines 80-95: the next projection runs; an exception is
\* printed and raised again (lines 100-102)
RunProjection ==
    /\ pc = "project" /\ Len(done) < Len(Projections)
    /\ LET projection == Projections[Len(done) + 1]
       IN  IF Raises(projection, openapi_spec.v)
           THEN pc' = "raised" /\ done' = done
           ELSE pc' = pc /\ done' = Append(done, projection)
    /\ UNCHANGED <<framework, project, openapi_spec, file_index, exit_code, probe, synthesis, tree, routes, limiter>>

\* generate_documentation, lines 97-98: all projections ran
PrintSummary ==
    /\ pc = "project" /\ Len(done) = Len(Projections)
    /\ pc' = "returned"
    /\ UNCHANGED <<framework, project, openapi_spec, file_index, done, exit_code, probe, synthesis, tree, routes, limiter>>

\* main, lines 3404-3423: generate_documentation returned; with --validate the
\* validation script runs when the file exists (this run or an earlier one wrote it),
\* and its failure exits with 1
MainReturned ==
    /\ pc = "returned"
    /\ \E validate \in BOOLEAN, script_exists \in BOOLEAN, passed \in BOOLEAN :
        /\ ("validation_script" \in Range(done)) => script_exists
        /\ exit_code' = IF validate /\ script_exists /\ ~passed THEN 1 ELSE 0
    /\ pc' = "exited"
    /\ UNCHANGED <<framework, project, openapi_spec, file_index, done, probe, synthesis, tree, routes, limiter>>

\* main, lines 3425-3427: except Exception
MainExcept ==
    /\ pc = "raised"
    /\ exit_code' = 1
    /\ pc' = "exited"
    /\ UNCHANGED <<framework, project, openapi_spec, file_index, done, probe, synthesis, tree, routes, limiter>>

Next ==
    \/ GenerateFastapiSpec
    \/ GenerateFlaskRestxSpec
    \/ GenerateDjangoSpec
    \/ GenerateGenericSpec
    \/ GenerateFlaskSpec
    \/ AnalyzeNextFile
    \/ AnalyzeReturn
    \/ CheckSpec
    \/ RunProjection
    \/ PrintSummary
    \/ MainReturned
    \/ MainExcept

Spec == Init /\ [][Next]_vars

(***************************************************************************)
(* The example synthesis taken alone: one call on one input                *)
(***************************************************************************)
InitSynthesis ==
    /\ framework = "unknown"
    /\ project = << >>
    /\ pc = "call"
    /\ openapi_spec = None
    /\ file_index = 1
    /\ done = << >>
    /\ exit_code = -1
    /\ probe = NoProbe
    /\ call \in SynthesisCalls
    /\ example = None
    /\ tree = NoTree
    /\ routes = << >>
    /\ LimiterIdle

\* the variables the synthesis does not touch
generator == <<framework, project, openapi_spec, file_index, done, exit_code, probe, tree,
              routes, limiter>>

\* _create_example_value(field_name, schema) returns
CreateExampleValue ==
    /\ pc = "call" /\ call.op = "value"
    /\ example' = Some(_create_example_value(call.field_name, call.schema))
    /\ pc' = "returned"
    /\ UNCHANGED <<generator, call>>

\* _create_example_from_schema(schema) returns
CreateExampleFromSchema ==
    /\ pc = "call" /\ call.op = "from_schema"
    /\ example' = Some(_create_example_from_schema(call.schema))
    /\ pc' = "returned"
    /\ UNCHANGED <<generator, call>>

\* _create_minimal_example(schema) returns
CreateMinimalExample ==
    /\ pc = "call" /\ call.op = "minimal"
    /\ example' = Some(_create_minimal_example(call.schema))
    /\ pc' = "returned"
    /\ UNCHANGED <<generator, call>>

NextSynthesis ==
    \/ CreateExampleValue
    \/ CreateExampleFromSchema
    \/ CreateMinimalExample

SynthesisSpec == InitSynthesis /\ [][NextSynthesis]_vars
(***************************************************************************)
(* The construction of the generator: __init__ calls detect_framework      *)
(***************************************************************************)
InitDetect ==
    /\ framework = NoFramework
    /\ project = << >>
    /\ pc = "construct"
    /\ openapi_spec = None
    /\ file_index = 1
    /\ done = << >>
    /\ exit_code = -1
    /\ probe = NoProbe
    /\ call = NoCall
    /\ example = None
    /\ tree \in Trees
    /\ routes = << >>
    /\ LimiterIdle

\* __init__, line 25: detect_framework returns and self.framework is set
ConstructGenerator ==
    /\ pc = "construct" /\ ~detect_framework(tree).raised
    /\ framework' = detect_framework(tree).framework
    /\ pc' = "constructed"
    /\ UNCHANGED <<project, openapi_spec, file_index, done, exit_code, probe, synthesis, tree,
                   routes, limiter>>

\* __init__, line 25: an exception leaves detect_framework; main catches it and exits
\* with 1 (lines 3425-3427)
ConstructRaises ==
    /\ pc = "construct" /\ detect_framework(tree).raised
    /\ pc' = "raised"
    /\ UNCHANGED <<framework, project, openapi_spec, file_index, done, exit_code, probe,
                   synthesis, tree, routes, limiter>>

NextDetect ==
    \/ ConstructGenerator
    \/ ConstructRaises
    \/ MainExcept

DetectSpec == InitDetect /\ [][NextDetect]_vars

(***************************************************************************)
(* The Route Extractor taken alone: one call on one source text            *)
(***************************************************************************)
InitExtraction ==
    /\ framework = "flask"
    /\ project \in {<<file>> : file \in ExtractionFiles}
    /\ pc = "extract"
    /\ openapi_spec = None
    /\ file_index = 1
    /\ done = << >>
    /\ exit_code = -1
    /\ probe = NoProbe
    /\ call = NoCall
    /\ example = None
    /\ tree = NoTree
    /\ routes = << >>
    /\ LimiterIdle

\* _extract_flask_routes(content) returns
ExtractFlaskRoutes ==
    /\ pc = "extract"
    /\ routes' = _extract_flask_routes(project[1].content)
    /\ pc' = "extracted"
    /\ UNCHANGED <<framework, project, openapi_spec, file_index, done, exit_code, probe,
                   synthesis, tree, limiter>>

NextExtraction == ExtractFlaskRoutes

ExtractionSpec == InitExtraction /\ [][NextExtraction]_vars

(***************************************************************************)
(* The rate limiter of the template applications                           *)
(* (templates/flask_app_template/app.py, fastapi_app_template/app/main.py) *)
(***************************************************************************)
\* "100 requests per hour"
RateLimit == 100

\* the seconds a timestamp is kept
Window == 3600

\* the most requests answered in one behaviour
MaxRequests == 3

\* the most half windows the clock advances
MaxTicks == 3

\* request.remote_addr / request.client.host
Clients == {"10.0.0.1", "10.0.0.2"}

\* [timestamp for timestamp in timestamps if timestamp > cutoff_time]
Kept(timestamps, current_time) ==
    LET cutoff_time == current_time - Window
        Newer(timestamp) == timestamp > cutoff_time
    IN  SelectSeq(timestamps, Newer)

\* mutant: the limit is tested with > instead of >=
BeforeRequestAdmittingOneMore(counts, client_ip, current_time) ==
    LET pruned == DictPut(counts, client_ip,
                          Kept(DictGet(counts, client_ip, << >>), current_time))
    IN  IF Len(DictGet(pruned, client_ip, << >>)) > RateLimit
        THEN [request_counts |-> pruned, response |-> Some(429)]
        ELSE [request_counts |-> DictPut(pruned, client_ip,
                                         Append(pruned[client_ip], current_time)),
              response |-> None]

\* flask template, before_request() for a request of client_ip at current_time: the
\* dict afterwards and the response returned (None: the request goes on to its view)
before_request(counts, client_ip, current_time) ==
    LET pruned == DictPut(counts, client_ip,
                          Kept(DictGet(counts, client_ip, << >>), current_time))
    IN  IF Len(DictGet(pruned, client_ip, << >>)) >= RateLimit
        THEN [request_counts |-> pruned, response |-> Some(429)]
        ELSE [request_counts |-> DictPut(pruned, client_ip,
                                         Append(pruned[client_ip], current_time)),
              response |-> None]

\* fastapi template, rate_limit(request, call_next): the dict afterwards, the status
\* of the response it builds itself, and whether it awaited call_next(request)
rate_limit(counts, client_ip, current_time) ==
    LET pruned == DictPut(counts, client_ip,
                          Kept(DictGet(counts, client_ip, << >>), current_time))
    IN  IF Len(DictGet(pruned, client_ip, << >>)) >= RateLimit
        THEN [request_counts |-> pruned, response |-> Some(429), call_next |-> FALSE]
        ELSE [request_counts |-> DictPut(pruned, client_ip,
                                         Append(pruned[client_ip], current_time)),
              response |-> None, call_next |-> TRUE]

\* the application has been serving: the first client has made no request, or one, one
\* less than the limit, or as many as the limit, all at time 0 (each appended its time)
InitLimiter ==
    /\ framework \in {"flask", "fastapi"}
    /\ project = << >>
    /\ pc = "serving"
    /\ openapi_spec = None
    /\ file_index = 1
    /\ done = << >>
    /\ exit_code = -1
    /\ probe = NoProbe
    /\ call = NoCall
    /\ example = None
    /\ tree = NoTree
    /\ routes = << >>
    /\ request_counts \in {EmptyDict}
            \cup {("10.0.0.1" :> [i \in 1..n |-> 0]) : n \in {1, RateLimit - 1, RateLimit}}
    /\ clock = 0
    /\ threads = << >>
    /\ admitted = EmptyDict
    /\ reply = EmptyDict
    /\ served = 0

\* flask template: one request is answered, before_request first; a response it
\* returns is the answer and the view is not called
BeforeRequest ==
    /\ framework = "flask" /\ pc = "serving" /\ served < MaxRequests
    /\ \E client_ip \in Clients :
        LET r == before_request(request_counts, client_ip, clock)
        IN  /\ request_counts' = r.request_counts
            /\ reply' = DictPut(reply, client_ip,
                                [time     |-> clock,
                                 before   |-> DictGet(request_counts, client_ip, << >>),
                                 rejected |-> r.response = Some(429),
                                 handled  |-> r.response.isNone])
    /\ served' = served + 1
    /\ UNCHANGED <<framework, project, pc, openapi_spec, file_index, done, exit_code,
                   probe, synthesis, tree, routes, clock, threads, admitted>>

\* fastapi template: one request is answered by the middleware
RateLimitMiddleware ==
    /\ framework = "fastapi" /\ pc = "serving" /\ served < MaxRequests
    /\ \E client_ip \in Clients :
        LET r == rate_limit(request_counts, client_ip, clock)
        IN  /\ request_counts' = r.request_counts
            /\ reply' = DictPut(reply, client_ip,
                                [time     |-> clock,
                                 before   |-> DictGet(request_counts, client_ip, << >>),
                                 rejected |-> r.response = Some(429),
                                 handled  |-> r.call_next])
    /\ served' = served + 1
    /\ UNCHANGED <<framework, project, pc, openapi_spec, file_index, done, exit_code,
                   probe, synthesis, tree, routes, clock, threads, admitted>>

\* time.time() advances by half a window or by a window
Tick ==
    /\ pc = "serving"
    /\ \E step \in {Window \div 2, Window} :
        /\ clock + step <= MaxTicks * (Window \div 2)
        /\ clock' = clock + step
    /\ UNCHANGED <<framework, project, pc, openapi_spec, file_index, done, exit_code,
                   probe, synthesis, tree, routes, request_counts, threads, admitted, reply, served>>

NextLimiter ==
    \/ BeforeRequest
    \/ RateLimitMiddleware
    \/ Tick

LimiterSpec == InitLimiter /\ [][NextLimiter]_vars

(***************************************************************************)
(* The flask template served by threads (app.run, threaded by default):    *)
(* before_request runs in every thread on the shared request_counts        *)
(***************************************************************************)
\* the threads that answer one request each
Threads == {"thread-1", "thread-2"}

\* the application has been serving: the first client has made no request, or one
\* less than the limit at time 0, all let through; no thread has taken a request
InitThreaded ==
    /\ framework = "flask"
    /\ project = << >>
    /\ pc = "serving"
    /\ openapi_spec = None
    /\ file_index = 1
    /\ done = << >>
    /\ exit_code = -1
    /\ probe = NoProbe
    /\ call = NoCall
    /\ example = None
    /\ tree = NoTree
    /\ routes = << >>
    /\ request_counts \in {EmptyDict, ("10.0.0.1" :> [i \in 1..RateLimit - 1 |-> 0])}
    /\ admitted = request_counts
    /\ clock = 0
    /\ threads = [t \in Threads |->
                     [pc |-> "idle", client_ip |-> "", current_time |-> 0, kept |-> << >>]]
    /\ reply = EmptyDict
    /\ served = 0

\* lines 83-87: the thread takes a request and reads the address and the time
Enter(t) ==
    /\ threads[t].pc = "idle"
    /\ \E client_ip \in Clients :
        threads' = [threads EXCEPT ![t] = [@ EXCEPT !.pc = "read",
                                                    !.client_ip = client_ip,
                                                    !.current_time = clock]]
    /\ UNCHANGED <<framework, project, pc, openapi_spec, file_index, done, exit_code,
                   probe, synthesis, tree, routes, request_counts, clock, admitted, reply, served>>

\* lines 89-90: the list comprehension over the list the dict holds now
ReadCounts(t) ==
    /\ threads[t].pc = "read"
    /\ threads' = [threads EXCEPT ![t] =
                      [@ EXCEPT !.pc = "store",
                                !.kept = Kept(DictGet(request_counts,
                                                      threads[t].client_ip, << >>),
                                              threads[t].current_time)]]
    /\ UNCHANGED <<framework, project, pc, openapi_spec, file_index, done, exit_code,
                   probe, synthesis, tree, routes, request_counts, clock, admitted, reply, served>>

\* line 88: the new list is stored in the dict
StoreCounts(t) ==
    /\ threads[t].pc = "store"
    /\ request_counts' = DictPut(request_counts, threads[t].client_ip, threads[t].kept)
    /\ threads' = [threads EXCEPT ![t] = [@ EXCEPT !.pc = "check"]]
    /\ UNCHANGED <<framework, project, pc, openapi_spec, file_index, done, exit_code,
                   probe, synthesis, tree, routes, clock, admitted, reply, served>>

\* lines 94-100: the limit is tested on the list the dict holds now
CheckLimit(t) ==
    /\ threads[t].pc = "check"
    /\ threads' = [threads EXCEPT ![t] =
                      [@ EXCEPT !.pc =
                          IF Len(DictGet(request_counts, threads[t].client_ip, << >>))
                                >= RateLimit
                          THEN "rejected" ELSE "append"]]
    /\ UNCHANGED <<framework, project, pc, openapi_spec, file_index, done, exit_code,
                   probe, synthesis, tree, routes, request_counts, clock, admitted, reply, served>>

\* lines 103-105: the time is appended to the list the dict holds now, and the
\* request goes on to its view
AppendTime(t) ==
    /\ threads[t].pc = "append"
    /\ request_counts' =
            DictPut(request_counts, threads[t].client_ip,
                    Append(DictGet(request_counts, threads[t].client_ip, << >>),
                           threads[t].current_time))
    /\ admitted' =
            DictPut(admitted, threads[t].client_ip,
                    Append(DictGet(admitted, threads[t].client_ip, << >>),
                           threads[t].current_time))
    /\ threads' = [threads EXCEPT ![t] = [@ EXCEPT !.pc = "admitted"]]
    /\ UNCHANGED <<framework, project, pc, openapi_spec, file_index, done, exit_code,
                   probe, synthesis, tree, routes, clock, reply, served>>

NextThreaded ==
    \/ \E t \in Threads : Enter(t)
    \/ \E t \in Threads : ReadCounts(t)
    \/ \E t \in Threads : StoreCounts(t)
    \/ \E t \in Threads : CheckLimit(t)
    \/ \E t \in Threads : AppendTime(t)
    \/ Tick

ThreadedSpec == InitThreaded /\ [][NextThreaded]_vars

(***************************************************************************)
(* Properties                                                              *)
(***************************************************************************)
\* the specification returned by generate_openapi_spec is in hand
SpecReturned == pc = "check" /\ ~openapi_spec.isNone

\* the operations the Builder is expected to hold for the routes of one file
RoutesOfFile(file) == _extract_flask_routes(file.content)

ReadableFiles == {i \in DOMAIN project : project[i].readable}

\* C1: whenever a projection starts, the specification has been enriched: its servers
\* list exists and is not empty, whatever the framework kind.
C1_EnrichedBeforeProjection ==
    (pc = "project" /\ Len(done) < Len(Projections)) =>
        /\ "servers" \in DOMAIN openapi_spec.v
        /\ Len(openapi_spec.v.servers) > 0

\* C2: generate_documentation never raises, and when it returns with a specification
\* every projection has run to completion, in order.
C2_AllProjectionsRun ==
    /\ pc # "raised"
    /\ (pc = "returned" /\ ~openapi_spec.isNone) => done = Projections

\* C3: the exit code is zero only when a specification was produced and every
\* artifact was generated; a run without a specification exits non-zero.
C3_ExitCodeZeroOnlyOnSuccess ==
    (pc = "exited" /\ exit_code = 0) =>
        (~openapi_spec.isNone /\ done = Projections)

\* C4: a route declaration with two explicit methods, however its list is spaced,
\* gives exactly two operations under its path, keyed by the lowercase method names,
\* each with operationId "{lowercase method}_{handler name}".
C4_TwoMethodsTwoOperations ==
    (framework = "flask" /\ SpecReturned) =>
        \A i \in ReadableFiles : \A k \in DOMAIN project[i].decls :
            LET d     == project[i].decls[k]
                paths == openapi_spec.v.paths
                keys  == {Lower(d.methods[n]) : n \in DOMAIN d.methods}
            IN  (Len(d.methods) = 2 /\ d.doc # "none") =>
                    /\ d.path \in DOMAIN paths
                    /\ DOMAIN paths[d.path] = keys
                    /\ \A m \in keys :
                        paths[d.path][m].operationId = m \o Lit.underscore \o d.function

\* C5: every Route the extractor emits is inserted, and the summary of each of its
\* operations is the first line of the docstring, or "{METHOD} {path}" when the
\* route has no docstring.
C5_SummaryFromDocstringOrDefault ==
    (framework = "flask" /\ SpecReturned) =>
        \A i \in ReadableFiles :
            LET declared == RoutesOfFile(project[i])
                paths    == openapi_spec.v.paths
            IN  \A k \in DOMAIN declared : \A n \in DOMAIN declared[k].methods :
                    LET r == declared[k]
                        m == r.methods[n]
                    IN  /\ r.path \in DOMAIN paths
                        /\ Lower(m) \in DOMAIN paths[r.path]
                        /\ paths[r.path][Lower(m)].summary =
                              IF r.docstring.isNone
                              THEN m \o Lit.space \o r.path
                              ELSE SplitChar(r.docstring.v, "\n")[1]

\* C6: every route declaration of a readable file that is followed by a matching
\* function definition ends up as operations of the returned specification,
\* whatever the other routes of the file look like.
C6_NoRouteLostToAnother ==
    (framework = "flask" /\ SpecReturned) =>
        \A i \in ReadableFiles : \A k \in DOMAIN project[i].decls :
            LET d     == project[i].decls[k]
                paths == openapi_spec.v.paths
            IN  /\ d.path \in DOMAIN paths
                /\ DOMAIN paths[d.path] # {}

\* C7: when a file of the project cannot be read, the routes of every readable file
\* are still extracted and present in the returned specification, in whatever order
\* the files are visited.
C7_UnreadableFileSkipped ==
    (framework = "flask" /\ SpecReturned /\ ReadableFiles # DOMAIN project) =>
        \A i \in ReadableFiles :
            LET declared == RoutesOfFile(project[i])
                paths    == openapi_spec.v.paths
            IN  \A k \in DOMAIN declared :
                    /\ declared[k].path \in DOMAIN paths
                    /\ DOMAIN paths[declared[k].path] # {}

\* C8: for an unknown framework the specification has exactly one path, /health,
\* with exactly one operation, GET, and its 200 response carries an example whose
\* status is "healthy": the example rendered from the response's schema, which holds
\* the explicit example of the status property.
C8_GenericFallback ==
    (framework = "unknown" /\ ~openapi_spec.isNone) =>
        LET paths == openapi_spec.v.paths
        IN  /\ DOMAIN paths = {Lit.health_path}
            /\ DOMAIN paths[Lit.health_path] = {Lit.get}
            /\ Lit.code200 \in DOMAIN paths[Lit.health_path][Lit.get].responses
            /\ LET schema ==
                    paths[Lit.health_path][Lit.get].responses[Lit.code200].content[Lit.json].schema
                   rendered == _create_example_from_schema(schema)
               IN  /\ rendered.t = "dict"
                   /\ Lit.status \in DOMAIN rendered.d
                   /\ rendered.d[Lit.status] = PyStr(Lit.healthy)
                   /\ DictGet(schema.properties[Lit.status], "example", PyNone)
                        = PyStr(Lit.healthy)

\* C8 witness: the generic specification was returned for an unknown framework.
C8_Witness == framework = "unknown" /\ SpecReturned

\* C9: enrichment is idempotent: enriching a specification that was enriched once
\* leaves it as it is (servers, info, security schemes, tags and every example).
\* For the fastapi kind the returned specification is the once-enriched one; for the
\* other kinds it is enriched here first.
C9_EnrichIdempotent ==
    SpecReturned =>
        LET once == IF framework = "fastapi" THEN openapi_spec.v
                    ELSE _enhance_openapi_spec(openapi_spec.v)
        IN  _enhance_openapi_spec(once) = once

\* C9 witness: an exported specification without tags, with a request body and
\* responses that had no examples, has been enriched.
C9_Witness ==
    /\ framework = "fastapi" /\ SpecReturned
    /\ "tags" \notin DOMAIN probe.spec
    /\ "info" \in DOMAIN probe.spec
    /\ {Txt.p_users, Txt.p_orders} \subseteq DOMAIN probe.spec.paths
    /\ "examples" \in DOMAIN
         openapi_spec.v.paths[Txt.p_users][Lit.post].requestBody.content[Lit.json]

\* the tag the claim gives a path: the first segment after stripping the slashes, or
\* the second one when the first is "api" and a second exists; << >> when the path
\* has no first segment
ClaimedTag(path) ==
    LET segments == SplitChar(StripChars(path, {"/"}), "/")
    IN  IF segments[1] = Lit.api /\ Len(segments) >= 2 THEN segments[2] ELSE segments[1]

\* the names of the tags of the returned specification, in order
TagNames == [k \in DOMAIN openapi_spec.v.tags |-> openapi_spec.v.tags[k].name]

\* the tags were derived by the Enricher: the exported specification had none
TagsDerived ==
    /\ framework = "fastapi" /\ SpecReturned
    /\ "tags" \notin DOMAIN probe.spec

\* C10: the derived tags are the claimed tag of every path that has a first segment,
\* without duplicates and in increasing order of name; for /users, /api/orders, /api
\* and /health they are api, health, orders, users.
C10_TagDerivation ==
    TagsDerived =>
        LET P == DOMAIN openapi_spec.v.paths
        IN  /\ Range(TagNames) = {ClaimedTag(p) : p \in {q \in P : ClaimedTag(q) # << >>}}
            /\ \A k \in 1..(Len(TagNames) - 1) : StrLess(TagNames[k], TagNames[k + 1])
            /\ (P = {Txt.p_users, Txt.p_orders, Txt.p_api, Txt.p_health}) =>
                    TagNames = <<Lit.api, Txt.health, Txt.orders, Txt.users>>

\* C10 witness: the tags of the four paths of the worked example were derived.
C10_Witness ==
    /\ TagsDerived
    /\ DOMAIN openapi_spec.v.paths = {Txt.p_users, Txt.p_orders, Txt.p_api, Txt.p_health}
    /\ Len(TagNames) = 4

\* the specification the application exported, before enrichment
Exported == probe.spec

\* the exported specification was enriched and returned
EnrichedReturned == framework = "fastapi" /\ SpecReturned

\* C11: enrichment merges info without replacing anything: every key the exported
\* info had keeps its value afterwards.
C11_InfoKeysPreserved ==
    (EnrichedReturned /\ "info" \in DOMAIN Exported) =>
        \A k \in DOMAIN Exported.info :
            /\ k \in DOMAIN openapi_spec.v.info
            /\ openapi_spec.v.info[k] = Exported.info[k]

\* one content entry before and after enrichment: examples that were there are
\* unchanged, and an entry with a schema and no examples has gained some
EntryKept(before, after) ==
    /\ "examples" \in DOMAIN before =>
            ("examples" \in DOMAIN after /\ after.examples = before.examples)
    /\ ("schema" \in DOMAIN before /\ "examples" \notin DOMAIN before) =>
            "examples" \in DOMAIN after

\* C12: enrichment never overwrites examples: every request-body and response content
\* entry that had an "examples" key keeps its value, and every entry with a schema
\* and no "examples" key gains one.
C12_ExamplesNeverOverwritten ==
    EnrichedReturned =>
        \A p \in DOMAIN Exported.paths : \A m \in DOMAIN Exported.paths[p] :
            LET before == Exported.paths[p][m]
                after  == openapi_spec.v.paths[p][m]
            IN  /\ ("requestBody" \in DOMAIN before /\ "content" \in DOMAIN before.requestBody) =>
                    \A ct \in DOMAIN before.requestBody.content :
                        EntryKept(before.requestBody.content[ct], after.requestBody.content[ct])
                /\ "responses" \in DOMAIN before =>
                    \A sc \in DOMAIN before.responses :
                        "content" \in DOMAIN before.responses[sc] =>
                            \A ct \in DOMAIN before.responses[sc].content :
                                EntryKept(before.responses[sc].content[ct],
                                          after.responses[sc].content[ct])

\* C12 witness: a specification with supplied examples (/api/orders) and with entries
\* that had none (/users) has been enriched.
C12_Witness ==
    /\ EnrichedReturned
    /\ {Txt.p_users, Txt.p_orders} \subseteq DOMAIN Exported.paths
    /\ openapi_spec.v.paths[Txt.p_orders][Lit.put].requestBody.content[Lit.json].examples
         = CustomExamples
    /\ "examples" \in DOMAIN
         openapi_spec.v.paths[Txt.p_users][Lit.get].responses[Lit.code200].content[Lit.json]

\* a call of the example synthesis has returned
SynthesisReturned == pc = "returned" /\ call.op # "none"

\* C13: an explicit "example" key always wins: for a schema that has one, at any level
\* including the schema passed to the synthesis as a whole, the synthesized value is
\* exactly that example.
C13_ExplicitExampleWins ==
    (SynthesisReturned /\ call.op \in {"value", "from_schema"}
        /\ "example" \in DOMAIN call.schema) =>
        example.v = call.schema.example

\* the integer the claim gives a field name: 25 for a name that contains "age", else
\* 10 for "count", else 8080 for "port", else 123 for a name that is "id" or ends in
\* "_id", else 42 (substrings are matched in the lowercased name)
ClaimedInteger(field_name) ==
    IF Contains(Lower(field_name), <<"a", "g", "e">>) THEN 25
    ELSE IF Contains(Lower(field_name), <<"c", "o", "u", "n", "t">>) THEN 10
    ELSE IF Contains(Lower(field_name), <<"p", "o", "r", "t">>) THEN 8080
    ELSE IF field_name = <<"i", "d">> \/ EndsWith(field_name, <<"_", "i", "d">>) THEN 123
    ELSE 42

\* C14: an integer field without an explicit example yields the integer of the rule
\* above, and the object schema with email:string, age:integer, active:boolean
\* synthesizes to {email: "user@example.com", age: 25, active: true}.
C14_IntegerRule ==
    SynthesisReturned =>
        /\ (call.op = "value" /\ DictGet(call.schema, "type", "string") = "integer"
                /\ "example" \notin DOMAIN call.schema) =>
                example.v = PyInt(ClaimedInteger(call.field_name))
        /\ (call.op = "from_schema" /\ call.schema = PersonSchema) =>
                example.v = PyDict((Txt.email :> PyStr(Lit.ex_email))
                                   @@ (Txt.age :> PyInt(25))
                                   @@ (Txt.active :> PyBool(TRUE)))

\* C14 witness: the object schema of the worked example has been synthesized.
C14_Witness ==
    /\ SynthesisReturned /\ call.op = "from_schema" /\ call.schema = PersonSchema
    /\ example.v.d[Txt.age] = PyInt(25)

\* C15: the keys of the minimal example of an object schema are exactly the names of
\* its "required" list that are declared properties; with required ["name"] and
\* properties name and email the only key is "name".  The minimal example stored by
\* _generate_examples_from_schema is that value.
C15_MinimalExampleKeys ==
    (SynthesisReturned /\ call.op = "minimal") =>
        LET required   == Range(DictGet(call.schema, "required", << >>))
            properties == DOMAIN DictGet(call.schema, "properties", EmptyDict)
        IN  /\ example.v.t = "dict"
            /\ DOMAIN example.v.d = required \cap properties
            /\ call.schema = NameEmailSchema => DOMAIN example.v.d = {Names.name}
            /\ "required" \in DOMAIN call.schema =>
                _generate_examples_from_schema(call.schema).minimal_example.value = example.v

\* C15 witness: the minimal example of the schema with required ["name"] and
\* properties name and email has been built.
C15_Witness ==
    /\ SynthesisReturned /\ call.op = "minimal" /\ call.schema = NameEmailSchema
    /\ Names.email \notin DOMAIN example.v.d

\* the rule that produced a value for a field name: the fallback of string fields
\* embeds the name, every other rule gives a value that does not depend on it
RuleOf(field_name, value) ==
    IF value.t = "str" /\ value.s = Lit.ex_prefix \o field_name
    THEN [fallback |-> TRUE, value |-> PyNone]
    ELSE [fallback |-> FALSE, value |-> value]

\* C16: field-name matching is case-insensitive for every rule: a field name and any
\* re-capitalisation of it fire the same rule on the same schema.
C16_CaseInsensitiveRules ==
    (SynthesisReturned /\ call.op = "value") =>
        \A n \in FieldNames :
            Lower(n) = Lower(call.field_name) =>
                RuleOf(n, _create_example_value(n, call.schema))
                    = RuleOf(call.field_name, example.v)

\* C17: framework detection never raises: for every project tree, also one with a
\* manifest or a source file that cannot be read, it returns one of the five kinds.
C17_DetectionNeverRaises ==
    /\ pc \notin {"raised", "exited"}
    /\ pc = "constructed" => framework \in FrameworkKinds

\* the manifests that contain a signature, by position
MatchingManifests ==
    {i \in DOMAIN tree.manifests :
        /\ tree.manifests[i].exists /\ tree.manifests[i].readable
        /\ \E sig \in {Sig.fastapi, Sig.flask_restx, Sig.drf, Sig.flask} :
                Contains(Lower(tree.manifests[i].content), sig)}

\* the framework the claim gives a manifest text: the first signature it contains, in
\* the order fastapi, flask-restx, djangorestframework, flask
ClaimedSignature(text) ==
    IF Contains(Lower(text), Sig.fastapi) THEN "fastapi"
    ELSE IF Contains(Lower(text), Sig.flask_restx) THEN "flask-restx"
    ELSE IF Contains(Lower(text), Sig.drf) THEN "django-drf"
    ELSE "flask"

\* the source files that contain a framework import, by position
MatchingSources ==
    {j \in DOMAIN tree.sources :
        tree.sources[j].readable /\ ImportMatch(tree.sources[j].content) # NoFramework}

\* C18: the first manifest, in the order requirements.txt, requirements-dev.txt,
\* pyproject.toml, that contains a signature decides the framework, by the signature
\* order fastapi, flask-restx, djangorestframework, flask; source files are consulted
\* only when no manifest matched; the result is unknown only when nothing matched.
C18_DetectionOrder ==
    pc = "constructed" =>
        /\ MatchingManifests # {} =>
            framework = ClaimedSignature(tree.manifests[SetMin(MatchingManifests)].content)
        /\ (MatchingManifests = {} /\ MatchingSources # {}) =>
            framework = ImportMatch(tree.sources[SetMin(MatchingSources)].content)
        /\ framework = "unknown" <=> (MatchingManifests = {} /\ MatchingSources = {})

\* C18 witness: requirements.txt names no framework, requirements-dev.txt names Flask
\* and fastapi, pyproject.toml names flask-restx, and a source file imports flask.
C18_Witness ==
    /\ pc = "constructed" /\ framework = "fastapi"
    /\ MatchingManifests = {2, 3}
    /\ tree.manifests[1].exists /\ tree.manifests[1].readable
    /\ Contains(Lower(tree.manifests[2].content), Sig.flask)
    /\ MatchingSources # {}

\* the introspection failed: no application file, a non-zero exit code, no output, or
\* output that is not JSON
IntrospectionFailed ==
    /\ framework = "fastapi" /\ pc # "generate"
    /\ \/ ~probe.app_found
       \/ probe.returncode # 0
       \/ probe.stdout \in {"empty", "garbage"}

\* C19: every failure of the introspection path is reported as a None result and
\* never as an exception out of _generate_fastapi_spec.
C19_IntrospectionFailureIsNone ==
    IntrospectionFailed => (openapi_spec = None /\ pc # "raised")

\* C19 witness: the subprocess exited with 0 and printed text that is not JSON, and
\* _generate_fastapi_spec returned None.
C19_Witness ==
    /\ IntrospectionFailed /\ pc = "check"
    /\ probe.app_found /\ probe.returncode = 0 /\ probe.stdout = "garbage"
    /\ openapi_spec = None

\* the operations of the returned specification, as (path, method key) pairs
OperationKeys ==
    LET paths == openapi_spec.v.paths
    IN  UNION {{<<p, m>> : m \in DOMAIN paths[p]} : p \in DOMAIN paths}

\* C20: operationId is unique within a specification built by the pattern-based path:
\* no two operations of the returned specification have the same operationId.
C20_OperationIdUnique ==
    (framework = "flask" /\ SpecReturned) =>
        \A a \in OperationKeys : \A b \in OperationKeys :
            a # b => openapi_spec.v.paths[a[1]][a[2]].operationId
                        # openapi_spec.v.paths[b[1]][b[2]].operationId

\* the HTTP verbs
HttpVerbs == {Txt.GET, Txt.POST, Txt.PUT, Txt.PATCH, Txt.DELETE, Txt.HEAD, Txt.OPTIONS}

\* the extractor returned the routes of the one file it was given
Extracted == pc = "extracted"

\* C21: every Route record the extractor emits has a non-empty path that begins with
\* "/" and a non-empty methods list whose members are HTTP verbs; a declaration
\* without a methods list gets exactly GET.
C21_RouteRecordWellFormed ==
    Extracted =>
        /\ \A k \in DOMAIN routes :
            /\ routes[k].path # << >>
            /\ routes[k].path[1] = "/"
            /\ routes[k].methods # << >>
            /\ \A n \in DOMAIN routes[k].methods : routes[k].methods[n] \in HttpVerbs
        /\ (Len(project[1].decls) = 1 /\ Len(routes) = 1
                /\ project[1].decls[1].methods = << >>) =>
                routes[1].methods = <<Txt.GET>>

\* C22: in a specification built from extracted routes, every declared method that is
\* POST, PUT or PATCH, in whatever position of the declared list, has its operation
\* under the lowercase method name with a requestBody whose JSON schema is of type
\* object, and no operation under any other key has a requestBody.
C22_RequestBodyIffBodyMethod ==
    (framework = "flask" /\ SpecReturned) =>
        LET paths == openapi_spec.v.paths
        IN  /\ \A i \in ReadableFiles : \A k \in DOMAIN project[i].decls :
                LET d == project[i].decls[k]
                IN  (d.path \in DOMAIN paths /\ DOMAIN paths[d.path] # {}) =>
                        \A n \in DOMAIN d.methods :
                            Lower(d.methods[n]) \in BodyMethods =>
                                /\ Lower(d.methods[n]) \in DOMAIN paths[d.path]
                                /\ "requestBody" \in DOMAIN paths[d.path][Lower(d.methods[n])]
                                /\ paths[d.path][Lower(d.methods[n])].requestBody
                                       = [content |-> JsonContent(ObjectSchema)]
            /\ \A p \in DOMAIN paths : \A m \in DOMAIN paths[p] :
                "requestBody" \in DOMAIN paths[p][m] => m \in BodyMethods

\* the two default security schemes as the specification words them
ClaimedSecuritySchemes ==
    [bearerAuth |-> [type |-> "http", scheme |-> "bearer", bearerFormat |-> "JWT"],
     apiKey     |-> [type |-> "apiKey", in |-> "header", name |-> "X-API-Key"]]

\* the components the application exported ({} when it exported none)
ExportedComponents == DictGet(Exported, "components", EmptyDict)

\* C23: enrichment sets components.securitySchemes to exactly the two defaults when the
\* exported components had no such key, leaves it exactly as exported when the key
\* was there, even empty, and changes no other key of components.
C23_SecuritySchemesOnlyWhenAbsent ==
    EnrichedReturned =>
        LET before == ExportedComponents
            after  == openapi_spec.v.components
        IN  /\ after.securitySchemes =
                    IF "securitySchemes" \in DOMAIN before
                    THEN before.securitySchemes ELSE ClaimedSecuritySchemes
            /\ DOMAIN after = DOMAIN before \cup {"securitySchemes"}
            /\ \A k \in DOMAIN before \ {"securitySchemes"} : after[k] = before[k]

\* an exported specification whose security schemes are present and empty was
\* enriched, and they are still empty
C23_Witness ==
    /\ EnrichedReturned
    /\ "securitySchemes" \in DOMAIN ExportedComponents
    /\ ExportedComponents.securitySchemes = EmptyDict
    /\ openapi_spec.v.components.securitySchemes = EmptyDict

\* the fixed body of a client error as the specification words it
ClaimedClientError ==
    PyDict((<<"e","r","r","o","r">> :> PyStr(<<"B","a","d"," ","R","e","q","u","e","s","t">>))
           @@ (<<"m","e","s","s","a","g","e">> :> PyStr(<<"I","n","v","a","l","i","d"," ","i","n","p","u","t"," ","p","r","o","v","i","d","e","d">>))
           @@ (<<"d","e","t","a","i","l","s">> :> PyList(<< PyStr(<<"F","i","e","l","d"," ","v","a","l","i","d","a","t","i","o","n"," ","f","a","i","l","e","d">>) >>)))

\* the fixed body of a server error as the specification words it
ClaimedServerError ==
    PyDict((<<"e","r","r","o","r">> :> PyStr(<<"I","n","t","e","r","n","a","l"," ","S","e","r","v","e","r"," ","E","r","r","o","r">>))
           @@ (<<"m","e","s","s","a","g","e">> :> PyStr(<<"A","n"," ","u","n","e","x","p","e","c","t","e","d"," ","e","r","r","o","r"," ","o","c","c","u","r","r","e","d">>)))

\* the examples claimed for a response content entry with the given schema
ClaimedResponseValues(status_code, schema) ==
    IF status_code[1] = "2" THEN { _create_example_from_schema(schema) }
    ELSE IF status_code[1] = "4" THEN { ClaimedClientError }
    ELSE IF status_code[1] = "5" THEN { ClaimedServerError }
    ELSE {}

\* the response content entries the application exported with a schema and without
\* examples, each with the place it is at
BareResponseEntries ==
    { e \in [p : DOMAIN Exported.paths, m : {Lit.get, Lit.post, Lit.put, Lit.patch},
             sc : {Lit.code200, Txt.code400, Txt.code404, Txt.code500, Txt.code503},
             ct : {Lit.json}] :
        /\ e.m \in DOMAIN Exported.paths[e.p]
        /\ "responses" \in DOMAIN Exported.paths[e.p][e.m]
        /\ e.sc \in DOMAIN Exported.paths[e.p][e.m].responses
        /\ "content" \in DOMAIN Exported.paths[e.p][e.m].responses[e.sc]
        /\ e.ct \in DOMAIN Exported.paths[e.p][e.m].responses[e.sc].content
        /\ "schema" \in DOMAIN Exported.paths[e.p][e.m].responses[e.sc].content[e.ct]
        /\ "examples" \notin DOMAIN Exported.paths[e.p][e.m].responses[e.sc].content[e.ct] }

\* C24: a response content entry with a schema and no examples gets, by the first
\* character of its status code, exactly one example synthesized from the schema
\* (2xx), the fixed client error body (4xx) or the fixed server error body (5xx);
\* the two fixed bodies are the same whatever the schema.
C24_ResponseExamplesByStatusClass ==
    EnrichedReturned =>
        \A e \in BareResponseEntries :
            LET before == Exported.paths[e.p][e.m].responses[e.sc].content[e.ct]
                after  == openapi_spec.v.paths[e.p][e.m].responses[e.sc].content[e.ct]
            IN  /\ Cardinality(DOMAIN after.examples) = 1
                /\ {after.examples[x].value : x \in DOMAIN after.examples}
                       = ClaimedResponseValues(e.sc, before.schema)

\* an enriched export with client errors over two different schemas and a server
\* error: both client errors carry the same fixed body
C24_Witness ==
    /\ EnrichedReturned
    /\ {Txt.p_users, Txt.p_deep, Txt.p_orders} \subseteq DOMAIN Exported.paths
    /\ Exported.paths[Txt.p_users][Lit.get].responses[Txt.code400].content[Lit.json].schema
           # Exported.paths[Txt.p_deep][Lit.patch].responses[Txt.code404].content[Lit.json].schema
    /\ openapi_spec.v.paths[Txt.p_users][Lit.get].responses[Txt.code400]
           .content[Lit.json].examples["error"].value = ClaimedClientError
    /\ openapi_spec.v.paths[Txt.p_deep][Lit.patch].responses[Txt.code404]
           .content[Lit.json].examples["error"].value = ClaimedClientError
    /\ openapi_spec.v.paths[Txt.p_orders][Lit.put].responses[Txt.code500]
           .content[Lit.json].examples["server_error"].value = ClaimedServerError
    /\ openapi_spec.v.paths[Txt.p_users][Lit.get].responses[Lit.code200]
           .content[Lit.json].examples["success"].value = _create_example_from_schema(PersonSchema)

\* the docstring the specification attaches to the handler of a declaration, by the
\* form of the text after its definition line
ClaimedDocstring(d) ==
    IF d.doc \in {"one", "single", "blank"} THEN Some(DocFirstLine(d))
    ELSE IF d.doc = "multi" THEN Some(DocFirstLine(d) \o <<"\n">> \o Txt.more)
    ELSE IF d.doc = "empty" THEN Some(<< >>)
    ELSE None

\* the declarations of the file whose route was emitted with their own handler
BoundDecls ==
    IF Len(routes) # Len(project[1].decls) THEN {}
    ELSE {k \in DOMAIN routes : routes[k].function = project[1].decls[k].function}

\* C25: the docstring of a route is decided by the first non-blank line after the
\* definition line: a line that opens and closes a triple-quoted string gives its
\* text, a line that only opens one gives the lines up to the closing delimiter, and
\* anything else gives None, with no later line examined.
C25_DocstringAttachment ==
    Extracted =>
        \A k \in BoundDecls : routes[k].docstring = ClaimedDocstring(project[1].decls[k])

\* C26: every route declaration is bound to the next function definition after it,
\* plain or async, with its signature on one line or not: the extractor emits one
\* Route per declaration, in order, with the path of the declaration and the name
\* of that function, and drops none.
C26_HandlerBinding ==
    Extracted =>
        /\ Len(routes) = Len(project[1].decls)
        /\ \A k \in DOMAIN routes :
            /\ routes[k].path = project[1].decls[k].path
            /\ routes[k].function = project[1].decls[k].function

\* C27: in every specification the route analysis returns, every key of paths maps to
\* a path item with at least one operation, whatever insertions failed on the way.
C27_NoEmptyPathItem ==
    (framework = "flask" /\ SpecReturned) =>
        \A p \in DOMAIN openapi_spec.v.paths : DOMAIN openapi_spec.v.paths[p] # {}

\* C28: for the kinds flask-restx and django-drf the generator returns what it
\* returns for an unknown kind, the generic specification whose only path is /health
\* with a GET operation, whatever the source files of the project are.
C28_RecognizedKindsAreGeneric ==
    (framework \notin {"fastapi", "flask"} /\ SpecReturned) =>
        /\ openapi_spec.v = _generate_generic_spec
        /\ DOMAIN openapi_spec.v.paths = {Lit.health_path}
        /\ DOMAIN openapi_spec.v.paths[Lit.health_path] = {Lit.get}

\* a django-drf project with a source file that declares routes got the generic
\* specification
C28_Witness ==
    /\ framework = "django-drf"
    /\ SpecReturned
    /\ \E i \in ReadableFiles : project[i].decls # << >>
    /\ openapi_spec.v = _generate_generic_spec

\* the timestamps of the list a client had before its latest request that are newer
\* than an hour before that request
Remaining(c) ==
    LET InHour(ts) == ts > reply[c].time - 3600
    IN  SelectSeq(reply[c].before, InHour)

\* C29: with requests answered one at a time, every client's list holds at most 100
\* timestamps, all newer than 3600 seconds before the client's latest request; the
\* latest request was answered 429 exactly when 100 timestamps remained after
\* pruning; a request answered 429 is not recorded and does not reach the handler,
\* and any other request is recorded and reaches it.
C29_SequentialLimiter ==
    pc = "serving" =>
        /\ \A c \in DOMAIN request_counts : Len(request_counts[c]) <= 100
        /\ \A c \in DOMAIN reply :
            /\ \A i \in DOMAIN request_counts[c] :
                    request_counts[c][i] > reply[c].time - 3600
            /\ reply[c].rejected <=> Len(Remaining(c)) = 100
            /\ reply[c].rejected =>
                    (request_counts[c] = Remaining(c) /\ ~reply[c].handled)
            /\ ~reply[c].rejected =>
                    (request_counts[c] = Append(Remaining(c), reply[c].time)
                     /\ reply[c].handled)

\* a client that had 100 timestamps within the hour was answered 429 after an
\* earlier request of the same hour was let through
C29_Witness ==
    /\ pc = "serving"
    /\ \E c \in DOMAIN reply :
        /\ reply[c].rejected
        /\ Len(request_counts[c]) = 100
        /\ request_counts[c][100] > request_counts[c][1]

\* how many times a timestamp is in a list
Occurrences(timestamps, ts) == Cardinality({i \in DOMAIN timestamps : timestamps[i] = ts})

\* the positions of the requests of a client let through within the last hour
AdmittedInHour(c) == {i \in DOMAIN admitted[c] : admitted[c][i] > clock - 3600}

\* C30: with the requests of a client answered by interleaved threads, no more than
\* 100 of them are let through within an hour, and the timestamp of every request let
\* through within the last hour is still in request_counts.
C30_ThreadedLimiter ==
    threads # << >> =>
        \A c \in DOMAIN admitted :
            /\ Cardinality(AdmittedInHour(c)) <= 100
            /\ \A i \in AdmittedInHour(c) :
                Occurrences(DictGet(request_counts, c, << >>), admitted[c][i])
                    >= Occurrences(admitted[c], admitted[c][i])

=============================================================================
